---- MODULE Spec2Model ----
(***************************************************************************)
(* A model of the career-history pipeline of the playerdb repository:      *)
(*   career_database_builder.py  CareerHistoryDatabase (stints,            *)
(*                               transitions, player statistics)           *)
(*   database_cleaner.py         DatabaseCleaner (noise classifier and     *)
(*                               the cleaning pass)                        *)
(*   database_merger.py          merge_databases                           *)
(*                                                                         *)
(* Text is modelled as a sequence of one-character strings, so that the    *)
(* string functions of the code (strip, lower, regular expressions,        *)
(* strptime) are computed character by character.                          *)
(***************************************************************************)
EXTENDS Integers, Sequences, FiniteSets, TLC

VARIABLES
    pc,                   \* position of the run: which operation comes next
    now,                  \* the date datetime.now() returns, <<y, m, d>>
    players_df,           \* CareerHistoryDatabase.players_df
    career_stints_df,     \* CareerHistoryDatabase.career_stints_df
    team_transitions_df,  \* CareerHistoryDatabase.team_transitions_df
    player_stats_df,      \* CareerHistoryDatabase.player_stats_df
    derive_runs,          \* completed runs of the two derived-table builders
    stints_clean,         \* clean_database: first element of the result
    transitions_clean,    \* clean_database: second element of the result
    stats_clean,          \* clean_database: third element of the result
    main_df,              \* merge_databases: the main collection
    supp_df,              \* merge_databases: the supplemental collection
    combined_df,          \* merge_databases: the merged collection
    call,                 \* arguments of a single function call
    ret                   \* value returned by that call

vars == <<pc, now, players_df, career_stints_df, team_transitions_df,
          player_stats_df, derive_runs, stints_clean, transitions_clean,
          stats_clean, main_df, supp_df, combined_df, call, ret>>

----------------------------------------------------------------------------
(* Bounds of the model *)

\* longest career list of the first player of a run
MaxCareer == 3
\* longest career list of the second player of a run
MaxOtherCareer == 1
\* longest generated team-name string given to the classifier
MaxNameLen == 3
\* longest collection given to the merger
MaxMerge == 2

----------------------------------------------------------------------------
(* Python values *)

\* Python None / an attribute not yet assigned
None == <<"<None>">>
\* None where a table (a sequence of rows) is expected
NoTable == << [none |-> TRUE] >>
\* pandas NaN, the value read_csv gives for a missing field
NaN == <<"<NaN>">>
\* _extract_year's None, and the NaN of a year column
NoYear == -1

----------------------------------------------------------------------------
(* Characters and strings *)

UpperLetters == <<"A", "B", "C", "D", "E", "F", "G", "H", "I", "J", "K", "L", "M",
                  "N", "O", "P", "Q", "R", "S", "T", "U", "V", "W", "X", "Y", "Z">>
LowerLetters == <<"a", "b", "c", "d", "e", "f", "g", "h", "i", "j", "k", "l", "m",
                  "n", "o", "p", "q", "r", "s", "t", "u", "v", "w", "x", "y", "z">>
Digits == <<"0", "1", "2", "3", "4", "5", "6", "7", "8", "9">>

\* the lower-case letter of every upper-case letter
LowerOfUpper ==
    [ c \in { UpperLetters[i] : i \in 1..Len(UpperLetters) } |->
        LowerLetters[CHOOSE i \in 1..Len(UpperLetters) : UpperLetters[i] = c] ]

\* str.lower on one character
LowerChar(c) == IF c \in DOMAIN LowerOfUpper THEN LowerOfUpper[c] ELSE c

\* str.lower
Lower(s) == [i \in 1..Len(s) |-> LowerChar(s[i])]

\* regex \d on one character
IsDigit(c) == \E i \in 1..Len(Digits) : Digits[i] = c

DigitVal(c) == (CHOOSE i \in 1..Len(Digits) : Digits[i] = c) - 1

\* regex \s / the characters str.strip removes
IsSpace(c) == c \in {" ", "\t", "\n"}

RECURSIVE LStrip(_)
LStrip(s) ==
    IF s # <<>> /\ IsSpace(Head(s)) THEN LStrip(Tail(s)) ELSE s

RECURSIVE RStrip(_)
RStrip(s) ==
    IF s # <<>> /\ IsSpace(s[Len(s)]) THEN RStrip(SubSeq(s, 1, Len(s) - 1)) ELSE s

\* str.strip
Strip(s) == LStrip(RStrip(s))

\* regex \d+ on the whole of s
AllDigits(s) == s # <<>> /\ \A i \in 1..Len(s) : IsDigit(s[i])

\* Python's `sub in s`
Contains(s, sub) ==
    \E i \in 0..(Len(s) - Len(sub)) : SubSeq(s, i + 1, i + Len(sub)) = sub

RECURSIVE IntOf(_)
\* int() of a string of digits
IntOf(s) ==
    IF s = <<>> THEN 0 ELSE 10 * IntOf(SubSeq(s, 1, Len(s) - 1)) + DigitVal(s[Len(s)])

\* all strings over alphabet A of length at most n
StringsUpTo(A, n) == UNION {[1..k -> A] : k \in 0..n}

----------------------------------------------------------------------------
(* DatabaseCleaner: the noise classifier *)

S_Tier == <<"S", "-", "T", "i", "e", "r">>
A_Tier == <<"A", "-", "T", "i", "e", "r">>
B_Tier == <<"B", "-", "T", "i", "e", "r">>
C_Tier == <<"C", "-", "T", "i", "e", "r">>
D_Tier == <<"D", "-", "T", "i", "e", "r">>
Retired == <<"R", "e", "t", "i", "r", "e", "d">>
Inactive == <<"I", "n", "a", "c", "t", "i", "v", "e">>
Active == <<"A", "c", "t", "i", "v", "e">>
Qualifier == <<"Q", "u", "a", "l", "i", "f", "i", "e", "r">>
Qualifiers == <<"Q", "u", "a", "l", "i", "f", "i", "e", "r", "s">>
Showmatch == <<"S", "h", "o", "w", "m", "a", "t", "c", "h">>
TBD == <<"T", "B", "D">>
TBA == <<"T", "B", "A">>
Unknown == <<"U", "n", "k", "n", "o", "w", "n">>
N_A == <<"N", "/", "A">>
NoneStr == <<"N", "o", "n", "e">>
Ord3rd4th == <<"3", "r", "d", " ", "-", " ", "4", "t", "h">>
Ord5th6th == <<"5", "t", "h", " ", "-", " ", "6", "t", "h">>
Ord7th8th == <<"7", "t", "h", " ", "-", " ", "8", "t", "h">>

\* self.fake_team_patterns: the regular expressions, in list order.  A
\* pattern ^text$ is [kind |-> "literal"]; the other four are named by shape.
fake_team_patterns ==
    << [kind |-> "literal", text |-> S_Tier],
       [kind |-> "literal", text |-> A_Tier],
       [kind |-> "literal", text |-> B_Tier],
       [kind |-> "literal", text |-> C_Tier],
       [kind |-> "literal", text |-> D_Tier],
       [kind |-> "ordinal", text |-> <<>>],
       [kind |-> "ordinal_range", text |-> <<>>],
       [kind |-> "literal", text |-> Retired],
       [kind |-> "literal", text |-> Inactive],
       [kind |-> "literal", text |-> Active],
       [kind |-> "literal", text |-> Qualifier],
       [kind |-> "literal", text |-> Showmatch],
       [kind |-> "literal", text |-> TBD],
       [kind |-> "literal", text |-> TBA],
       [kind |-> "literal", text |-> Unknown],
       [kind |-> "literal", text |-> N_A],
       [kind |-> "literal", text |-> NoneStr],
       [kind |-> "blank", text |-> <<>>],
       [kind |-> "digits", text |-> <<>>] >>

\* self.fake_teams_exact
fake_teams_exact ==
    { S_Tier, A_Tier, B_Tier, C_Tier, D_Tier,
      Retired, Inactive, Active,
      Qualifier, Qualifiers, Showmatch,
      <<"1", "s", "t">>, <<"2", "n", "d">>, <<"3", "r", "d">>, <<"4", "t", "h">>,
      <<"5", "t", "h">>, <<"6", "t", "h">>, <<"7", "t", "h">>, <<"8", "t", "h">>,
      Ord3rd4th, Ord5th6th, Ord7th8th,
      TBD, TBA, Unknown, N_A, NoneStr }

\* ^\d+(?:st|nd|rd|th)$ under re.IGNORECASE
MatchesOrdinal(s) ==
    /\ Len(s) >= 3
    /\ Lower(SubSeq(s, Len(s) - 1, Len(s))) \in
          { <<"s", "t">>, <<"n", "d">>, <<"r", "d">>, <<"t", "h">> }
    /\ AllDigits(SubSeq(s, 1, Len(s) - 2))

\* ^\d+(?:st|nd|rd|th)\s*-\s*\d+(?:st|nd|rd|th)$ under re.IGNORECASE
MatchesOrdinalRange(s) ==
    \E i \in 1..Len(s) :
        /\ s[i] = "-"
        /\ MatchesOrdinal(RStrip(SubSeq(s, 1, i - 1)))
        /\ MatchesOrdinal(LStrip(SubSeq(s, i + 1, Len(s))))

\* the patterns matched with the blank pattern written without its anchors:
\* re.match(r'\s*', team) matches at the start of every string
ReMatchBlankUnanchored(pattern, team) ==
    CASE pattern.kind = "literal" -> Lower(team) = Lower(pattern.text)
      [] pattern.kind = "ordinal" -> MatchesOrdinal(team)
      [] pattern.kind = "ordinal_range" -> MatchesOrdinalRange(team)
      [] pattern.kind = "blank" -> TRUE
      [] pattern.kind = "digits" -> AllDigits(team)

\* re.match(pattern, team, re.IGNORECASE) for one entry of fake_team_patterns
ReMatch(pattern, team) ==
    CASE pattern.kind = "literal" -> Lower(team) = Lower(pattern.text)
      [] pattern.kind = "ordinal" -> MatchesOrdinal(team)
      [] pattern.kind = "ordinal_range" -> MatchesOrdinalRange(team)
      [] pattern.kind = "blank" -> \A i \in 1..Len(team) : IsSpace(team[i])
      [] pattern.kind = "digits" -> AllDigits(team)

\* DatabaseCleaner.is_fake_team
is_fake_team(team_name) ==
    IF team_name = NaN \/ team_name = <<>> \/ Strip(team_name) = <<>>
    THEN TRUE
    ELSE LET team == Strip(team_name) IN
         IF team \in fake_teams_exact
         THEN TRUE
         ELSE \E i \in 1..Len(fake_team_patterns) : ReMatch(fake_team_patterns[i], team)

----------------------------------------------------------------------------
(* CareerHistoryDatabase: dates *)

\* calendar.isleap
IsLeap(y) == (y % 4 = 0 /\ y % 100 # 0) \/ y % 400 = 0

\* days in month m of year y
DaysInMonth(y, m) ==
    IF m = 2 THEN (IF IsLeap(y) THEN 29 ELSE 28)
    ELSE IF m \in {4, 6, 9, 11} THEN 30 ELSE 31

RECURSIVE DaysBeforeMonth(_, _)
\* days of year y that precede the first day of month m
DaysBeforeMonth(y, m) ==
    IF m = 1 THEN 0 ELSE DaysBeforeMonth(y, m - 1) + DaysInMonth(y, m - 1)

\* date.toordinal: day 1 is 0001-01-01
ToOrdinal(date) ==
    LET y == date[1] - 1 IN
    365 * y + (y \div 4) - (y \div 100) + (y \div 400)
      + DaysBeforeMonth(date[1], date[2]) + date[3]

\* strptime's %m directive: 1[0-2]|0[1-9]|[1-9]
MonthField(s) ==
    \/ Len(s) = 2 /\ s[1] = "1" /\ s[2] \in {"0", "1", "2"}
    \/ Len(s) = 2 /\ s[1] = "0" /\ IsDigit(s[2]) /\ s[2] # "0"
    \/ Len(s) = 1 /\ IsDigit(s[1]) /\ s[1] # "0"

\* strptime's %d directive: 3[0-1]|[1-2]\d|0[1-9]|[1-9]| [1-9]
DayField(s) ==
    \/ Len(s) = 2 /\ s[1] = "3" /\ s[2] \in {"0", "1"}
    \/ Len(s) = 2 /\ s[1] \in {"1", "2"} /\ IsDigit(s[2])
    \/ Len(s) = 2 /\ s[1] \in {"0", " "} /\ IsDigit(s[2]) /\ s[2] # "0"
    \/ Len(s) = 1 /\ IsDigit(s[1]) /\ s[1] # "0"

\* the ways to cut s into year-month-day fields that '%Y-%m-%d' accepts:
\* <<month length, day length>>; the separators leave at most one
StrptimeCuts(s) ==
    { c \in {1, 2} \X {1, 2} :
        /\ Len(s) = 6 + c[1] + c[2]
        /\ AllDigits(SubSeq(s, 1, 4))
        /\ s[5] = "-"
        /\ MonthField(SubSeq(s, 6, 5 + c[1]))
        /\ s[6 + c[1]] = "-"
        /\ DayField(SubSeq(s, 7 + c[1], 6 + c[1] + c[2])) }

\* datetime.strptime(s, '%Y-%m-%d'): the date <<y, m, d>>, or None where the
\* code raises ValueError (no match, year 0, or a day the month does not have)
Strptime(s) ==
    IF StrptimeCuts(s) = {} THEN None
    ELSE LET c == CHOOSE cut \in StrptimeCuts(s) : TRUE
             y == IntOf(SubSeq(s, 1, 4))
             m == IntOf(SubSeq(s, 6, 5 + c[1]))
             d == IntOf(LStrip(SubSeq(s, 7 + c[1], 6 + c[1] + c[2])))
         IN IF y >= 1 /\ d <= DaysInMonth(y, m) THEN <<y, m, d>> ELSE None

PresentLower == <<"p", "r", "e", "s", "e", "n", "t">>
Present == <<"P", "r", "e", "s", "e", "n", "t">>

\* the difference returned as it is, without max(0, ...)
UnclampedDuration(duration) == duration

\* max(0, duration)
ClampDuration(duration) == IF duration > 0 THEN duration ELSE 0

\* CareerHistoryDatabase._calculate_duration; today is the date of
\* datetime.now(), whose time of day never changes the whole days counted
\* from a midnight
_calculate_duration(date_start, date_end, today) ==
    IF date_start = <<>> \/ date_end = <<>> \/ date_start = None \/ date_end = None
    THEN 0
    ELSE LET end_date == IF Contains(Lower(date_end), PresentLower)
                         THEN today
                         ELSE Strptime(date_end)
             start_date == Strptime(date_start)
         IN IF end_date = None \/ start_date = None
            THEN 0
            ELSE ClampDuration(ToOrdinal(end_date) - ToOrdinal(start_date))

\* re.search(r'(\d{4})', s): the start of the first run of four digits, 0 if none
FirstYearRun(s) ==
    LET hits == { i \in 1..(Len(s) - 3) : AllDigits(SubSeq(s, i, i + 3)) }
    IN IF hits = {} THEN 0 ELSE CHOOSE i \in hits : \A j \in hits : i <= j

\* CareerHistoryDatabase._extract_year
_extract_year(date_str) ==
    IF date_str = <<>> \/ date_str = None \/ date_str = NaN THEN NoYear
    ELSE IF FirstYearRun(date_str) = 0 THEN NoYear
    ELSE IntOf(SubSeq(date_str, FirstYearRun(date_str), FirstYearRun(date_str) + 3))

----------------------------------------------------------------------------
(* Tables: a DataFrame is the sequence of its rows, a row is a record *)

\* Series.unique(): the values in order of first appearance
RECURSIVE Unique(_)
Unique(values) ==
    IF values = <<>> THEN <<>>
    ELSE LET rest == Unique(SubSeq(values, 1, Len(values) - 1))
             last == values[Len(values)]
         IN IF \E i \in 1..Len(rest) : rest[i] = last THEN rest ELSE Append(rest, last)

\* df['player_id']
PlayerIdColumn(df) == [i \in 1..Len(df) |-> df[i].player_id]

\* df[df['player_id'] == player_id]
RowsOf(df, player_id) == SelectSeq(df, LAMBDA row : row.player_id = player_id)

RECURSIVE InsertByStintNumber(_, _)
\* row put behind every row of the sorted table whose stint_number is not larger
InsertByStintNumber(sorted, row) ==
    IF sorted = <<>> THEN <<row>>
    ELSE IF sorted[Len(sorted)].stint_number <= row.stint_number
         THEN Append(sorted, row)
         ELSE Append(InsertByStintNumber(SubSeq(sorted, 1, Len(sorted) - 1), row),
                     sorted[Len(sorted)])

RECURSIVE SortByStintNumber(_)
\* df.sort_values('stint_number'); rows of equal stint_number keep their order,
\* as numpy's sort does on tables this short
SortByStintNumber(df) ==
    IF df = <<>> THEN <<>>
    ELSE InsertByStintNumber(SortByStintNumber(SubSeq(df, 1, Len(df) - 1)), df[Len(df)])

\* the rows of the player in table order, not sorted
TableOrder(df) == df

\* player_stints.sort_values('stint_number') of build_team_transitions_table
sort_values(df) == SortByStintNumber(df)

RECURSIVE Flatten(_)
\* the concatenation of a sequence of sequences
Flatten(seqs) == IF seqs = <<>> THEN <<>> ELSE Head(seqs) \o Flatten(Tail(seqs))

RECURSIVE SumOf(_)
SumOf(numbers) == IF numbers = <<>> THEN 0 ELSE Head(numbers) + SumOf(Tail(numbers))

----------------------------------------------------------------------------
(* CareerHistoryDatabase.build_career_stints_table *)

\* the career entries before the first one whose processing raises: an entry
\* that is no dict has no .get, and the except clause sits outside the entry loop
RECURSIVE EntriesBeforeError(_)
EntriesBeforeError(career) ==
    IF career = <<>> \/ ~Head(career).is_dict THEN <<>>
    ELSE <<Head(career)>> \o EntriesBeforeError(Tail(career))

\* the career_history cell of a players_df row: a JSON list of entries, an
\* empty cell (None), or text for which json.loads raises
JsonList(entries) == [cell |-> "list", entries |-> entries]
NoneCell == [cell |-> "none", entries |-> <<>>]
BadJson == [cell |-> "bad json", entries |-> <<>>]

\* whether the loop over the career entries is entered
HasCareer(player) ==
    /\ player.career_history.cell = "list"
    /\ player.career_history.entries # <<>>

\* every stint that has an end text taken for the current one
IsCurrentWhenEnded(date_end) == date_end # <<>>

\* is_current: 'present' in date_end.lower() if date_end else False
IsCurrent(date_end) ==
    IF date_end # <<>> THEN Contains(Lower(date_end), PresentLower) ELSE FALSE

\* the row appended for entry number stint_num of the player's career
StintRow(player, entry, stint_num, stint_id, today) ==
    [ stint_id |-> stint_id,
      player_id |-> player.player_id,
      real_name |-> player.real_name,
      country |-> player.country,
      current_team |-> player.current_team,
      player_status |-> player.status,
      stint_number |-> stint_num,
      team |-> entry.team,
      date_start |-> entry.date_start,
      date_end |-> entry.date_end,
      stint_status |-> entry.status,
      is_current_team |-> IsCurrent(entry.date_end),
      duration_days |-> _calculate_duration(entry.date_start, entry.date_end, today),
      year_start |-> _extract_year(entry.date_start),
      year_end |-> IF entry.date_end # <<>>
                      /\ ~Contains(Lower(entry.date_end), PresentLower)
                   THEN _extract_year(entry.date_end)
                   ELSE today[1] ]

\* the first number enumerate(career, 1) hands out
FirstStintNumber == 1

\* the rows one player contributes, the first of them numbered first_id
PlayerStints(player, first_id, today) ==
    IF ~HasCareer(player) THEN <<>>
    ELSE LET entries == EntriesBeforeError(player.career_history.entries)
         IN [ i \in 1..Len(entries) |->
                StintRow(player, entries[i], FirstStintNumber + i - 1,
                         first_id + i - 1, today) ]

\* the counter advanced once per career entry of the player, appended or not
StintIdAfterEntries(first_id, player, rows) ==
    first_id + Len(player.career_history.entries)

\* stint_id += 1 after every append: the counter after the player's rows
StintIdAfter(first_id, player, rows) == first_id + Len(rows)

RECURSIVE StintsFrom(_, _, _)
\* the loop over players_df.iterrows(), stint_id running across players
StintsFrom(players, first_id, today) ==
    IF players = <<>> THEN <<>>
    ELSE LET rows == PlayerStints(Head(players), first_id, today)
         IN rows \o StintsFrom(Tail(players),
                               StintIdAfter(first_id, Head(players), rows), today)

\* the table build_career_stints_table stores in self.career_stints_df
CareerStints(players, today) == StintsFrom(players, 1, today)

----------------------------------------------------------------------------
(* CareerHistoryDatabase.build_team_transitions_table *)

\* the row for the move from current_stint to next_stint
TransitionRow(current_stint, next_stint) ==
    [ player_id |-> current_stint.player_id,
      real_name |-> current_stint.real_name,
      country |-> current_stint.country,
      from_team |-> current_stint.team,
      to_team |-> next_stint.team,
      from_stint_status |-> current_stint.stint_status,
      to_stint_status |-> next_stint.stint_status,
      transition_date |-> next_stint.date_start,
      transition_year |-> next_stint.year_start,
      from_duration_days |-> current_stint.duration_days,
      stint_number |-> current_stint.stint_number ]

\* the loop bound written one too small: range(len(player_stints) - 2)
TransitionIndicesShort(player_stints) == 1..(Len(player_stints) - 2)

\* range(len(player_stints) - 1), from 1
TransitionIndices(player_stints) == 1..(Len(player_stints) - 1)

\* the transitions of one player: one per pair of consecutive sorted rows
PlayerTransitions(stints, player_id) ==
    LET player_stints == sort_values(RowsOf(stints, player_id))
        n == Cardinality(TransitionIndices(player_stints))
    IN [ i \in 1..n |-> TransitionRow(player_stints[i], player_stints[i + 1]) ]

\* the counter kept across runs instead of being reset
CarriedTransitionId ==
    IF team_transitions_df = NoTable THEN 1 ELSE Len(team_transitions_df) + 1

\* the value the counter transition_id starts a run with
FirstTransitionId == 1

\* the table build_team_transitions_table stores in self.team_transitions_df
TeamTransitions(stints) ==
    LET ids == Unique(PlayerIdColumn(stints))
        rows == Flatten([ k \in 1..Len(ids) |-> PlayerTransitions(stints, ids[k]) ])
    IN [ i \in 1..Len(rows) |->
           [ transition_id |-> FirstTransitionId + i - 1 ] @@ rows[i] ]

----------------------------------------------------------------------------
(* The aggregates of one player's stints, common to build_player_stats_table
   and recalculate_player_stats *)

\* Series.count() in the place of nunique(): the values that are present
CountPresent(values) ==
    Cardinality({ i \in 1..Len(values) : values[i] \notin {NaN, None} })

\* Series.nunique(): the number of distinct values, NaN and None not counted
NUnique(values) ==
    Cardinality({ values[i] : i \in 1..Len(values) } \ {NaN, None})

\* Series.min() of a year column: the missing years are skipped
MinYear(years) ==
    LET known == { years[i] : i \in 1..Len(years) } \ {NoYear}
    IN IF known = {} THEN NoYear ELSE CHOOSE y \in known : \A z \in known : y <= z

\* Series.max() of a year column: the missing years are skipped
MaxYear(years) ==
    LET known == { years[i] : i \in 1..Len(years) } \ {NoYear}
    IN IF known = {} THEN NoYear ELSE CHOOSE y \in known : \A z \in known : y >= z

\* year_end - year_start if year_end > year_start else 0; a comparison with a
\* missing year is false
CareerYears(year_start, year_end) ==
    IF year_start # NoYear /\ year_end # NoYear /\ year_end > year_start
    THEN year_end - year_start
    ELSE 0

\* len(player_stints[player_stints['stint_status'] == status])
CountStatus(player_stints, status) ==
    Len(SelectSeq(player_stints, LAMBDA row : row.stint_status = status))

Loan == <<"L", "o", "a", "n">>
StandIn == <<"S", "t", "a", "n", "d", "-", "i", "n">>

\* the team names unique_teams is counted over
TeamsCounted(player_stints) == [ i \in 1..Len(player_stints) |-> player_stints[i].team ]

\* the rank of the characters of the dates by code point
CodePoint ==
    LET order == <<"-">> \o Digits \o UpperLetters \o LowerLetters
    IN [ c \in { order[i] : i \in 1..Len(order) } |->
           CHOOSE i \in 1..Len(order) : order[i] = c ]

RECURSIVE TextLess(_, _)
\* a < b of two Python strings
TextLess(a, b) ==
    IF b = <<>> THEN FALSE
    ELSE IF a = <<>> THEN TRUE
    ELSE IF Head(a) = Head(b) THEN TextLess(Tail(a), Tail(b))
    ELSE CodePoint[Head(a)] < CodePoint[Head(b)]

\* Series.min() of a text column: the missing values are skipped
MinText(values) ==
    LET known == { values[i] : i \in 1..Len(values) } \ {NaN, None}
    IN IF known = {} THEN NaN ELSE CHOOSE t \in known : \A u \in known : ~TextLess(u, t)

\* Series.max() of a text column
MaxText(values) ==
    LET known == { values[i] : i \in 1..Len(values) } \ {NaN, None}
    IN IF known = {} THEN NaN ELSE CHOOSE t \in known : \A u \in known : ~TextLess(t, u)

\* the columns computed from the player's stints
Aggregates(player_stints) ==
    LET total_teams == Len(player_stints)
        unique_teams == NUnique(TeamsCounted(player_stints))
        year_start == MinYear([ i \in 1..Len(player_stints) |-> player_stints[i].year_start ])
        year_end == MaxYear([ i \in 1..Len(player_stints) |-> player_stints[i].year_end ])
    IN [ total_teams |-> total_teams,
         unique_teams |-> unique_teams,
         teams_played_multiple_times |-> total_teams - unique_teams,
         career_start_date |->
             MinText([ i \in 1..Len(player_stints) |-> player_stints[i].date_start ]),
         career_end_date |->
             MaxText([ i \in 1..Len(player_stints) |-> player_stints[i].date_end ]),
         career_start_year |-> year_start,
         career_end_year |-> year_end,
         career_span_years |-> CareerYears(year_start, year_end),
         total_career_days |->
             SumOf([ i \in 1..Len(player_stints) |-> player_stints[i].duration_days ]),
         inactive_stints |-> CountStatus(player_stints, Inactive),
         loan_stints |-> CountStatus(player_stints, Loan),
         standin_stints |-> CountStatus(player_stints, StandIn) ]

----------------------------------------------------------------------------
(* CareerHistoryDatabase.build_player_stats_table *)

\* the row of one player: identity from the first players_df row of that id
PlayerStatsRow(players, stints, player_id) ==
    LET player_stints == RowsOf(stints, player_id)
        player_info == RowsOf(players, player_id)[1]
    IN [ player_id |-> player_id,
         real_name |-> player_info.real_name,
         country |-> player_info.country,
         current_team |-> player_info.current_team,
         player_status |-> player_info.status,
         is_active |-> (player_info.status = Active),
         has_current_team |-> (player_info.current_team # NaN
                               /\ player_info.current_team # None
                               /\ player_info.current_team # <<>>) ]
       @@ Aggregates(player_stints)

\* a row for every player of the players file, with or without stints
PlayerStatsOfAllPlayers(players, stints) ==
    LET ids == Unique(PlayerIdColumn(players))
    IN [ k \in 1..Len(ids) |-> PlayerStatsRow(players, stints, ids[k]) ]

\* the table build_player_stats_table stores in self.player_stats_df
PlayerStats(players, stints) ==
    LET ids == Unique(PlayerIdColumn(stints))
    IN [ k \in 1..Len(ids) |-> PlayerStatsRow(players, stints, ids[k]) ]

----------------------------------------------------------------------------
(* DatabaseCleaner *)

\* the strings pd.read_csv reads as a missing value
NaValues ==
    { <<>>, <<"N", "A">>, <<"N", "/", "A">>, <<"n", "/", "a">>, <<"N", "a", "N">>,
      <<"n", "a", "n">>, <<"N", "U", "L", "L">>, <<"n", "u", "l", "l">>,
      <<"N", "o", "n", "e">>, <<"#", "N", "/", "A">>, <<"#", "N", "A">>,
      <<"<", "N", "A", ">">>, <<"-", "N", "a", "N">>, <<"-", "n", "a", "n">> }

\* one text field written by to_csv and read back by pd.read_csv
CsvField(text) == IF text \in NaValues \/ text = None THEN NaN ELSE text

\* the stints table as clean_database loads it from the exported file
ReadStintsCsv(stints) ==
    [ i \in 1..Len(stints) |->
        [ stints[i] EXCEPT !.team = CsvField(@),
                           !.real_name = CsvField(@),
                           !.country = CsvField(@),
                           !.current_team = CsvField(@),
                           !.player_status = CsvField(@),
                           !.date_start = CsvField(@),
                           !.date_end = CsvField(@),
                           !.stint_status = CsvField(@) ] ]

\* the transitions table as clean_database loads it: reading the file of an
\* empty table raises, and the except clause leaves None
ReadTransitionsCsv(transitions) ==
    IF transitions = <<>> THEN NoTable
    ELSE [ i \in 1..Len(transitions) |->
             [ transitions[i] EXCEPT !.from_team = CsvField(@),
                                     !.to_team = CsvField(@),
                                     !.real_name = CsvField(@),
                                     !.country = CsvField(@),
                                     !.from_stint_status = CsvField(@),
                                     !.to_stint_status = CsvField(@),
                                     !.transition_date = CsvField(@) ] ]

\* the cleaned transitions file read back: a table that lost all its rows
\* still has its header line and loads as a table without rows; a file that
\* was never written leaves None
ReadCleanTransitionsCsv(transitions) ==
    IF transitions = NoTable \/ transitions = <<>> THEN transitions
    ELSE ReadTransitionsCsv(transitions)

\* the statistics table as clean_database loads it
ReadStatsCsv(stats) ==
    [ i \in 1..Len(stats) |->
        [ stats[i] EXCEPT !.real_name = CsvField(@),
                          !.country = CsvField(@),
                          !.current_team = CsvField(@),
                          !.player_status = CsvField(@) ] ]

\* removed/original_count*100 in the report of clean_stints and of
\* clean_transitions: the division of 0 by 0 raises on a table without rows
DividesByZero(df) == Len(df) = 0

\* the stints table returned as it is
KeepAllStints(stints_df) == stints_df

\* DatabaseCleaner.clean_stints
clean_stints(stints_df) ==
    SelectSeq(stints_df, LAMBDA row : ~is_fake_team(row.team))

\* the mask with the from_team test alone
KeepsTransitionFrom(row) == ~is_fake_team(row.from_team)

\* the mask of clean_transitions: the rows that stay
KeepsTransition(row) == ~is_fake_team(row.from_team) /\ ~is_fake_team(row.to_team)

\* DatabaseCleaner.clean_transitions
clean_transitions(transitions_df) == SelectSeq(transitions_df, KeepsTransition)

\* the player's row of the uncleaned statistics returned as it is
OriginalRow(stints_df, original, player_id) == original

\* the row recalculate_player_stats appends for one player
RecalculatedRow(stints_df, original, player_id) ==
    LET player_stints == SortByStintNumber(RowsOf(stints_df, player_id))
    IN [ player_id |-> player_id,
         real_name |-> original.real_name,
         country |-> original.country,
         current_team |-> original.current_team,
         player_status |-> original.player_status,
         is_active |-> original.is_active,
         has_current_team |-> original.has_current_team ]
       @@ Aggregates(player_stints)

\* the statistics of the uncleaned database returned as they are
KeepOriginalStats(stints_df, original_stats_df) == original_stats_df

\* DatabaseCleaner.recalculate_player_stats
recalculate_player_stats(stints_df, original_stats_df) ==
    LET ids == Unique(PlayerIdColumn(stints_df))
        known == SelectSeq(ids, LAMBDA id : RowsOf(stints_df, id) # <<>>
                                            /\ RowsOf(original_stats_df, id) # <<>>)
    IN [ k \in 1..Len(known) |->
           RecalculatedRow(stints_df, RowsOf(original_stats_df, known[k])[1], known[k]) ]

----------------------------------------------------------------------------
(* The input of a run: the players file that load_data reads *)

Sentinels == <<"S", "e", "n", "t", "i", "n", "e", "l", "s">>
Fnatic == <<"F", "n", "a", "t", "i", "c">>
Date20200413 == <<"2", "0", "2", "0", "-", "0", "4", "-", "1", "3">>
Date20200702 == <<"2", "0", "2", "0", "-", "0", "7", "-", "0", "2">>
Date20210110 == <<"2", "0", "2", "1", "-", "0", "1", "-", "1", "0">>

\* a career entry as the scrapers store it in the career_history JSON
Entry(team, date_start, date_end, status) ==
    [ is_dict |-> TRUE, team |-> team, date_start |-> date_start,
      date_end |-> date_end, status |-> status ]

EntrySentinels == Entry(Sentinels, Date20200413, Date20200702, Inactive)
EntryTier == Entry(S_Tier, Date20200702, Date20210110, Active)
EntryFnatic == Entry(Fnatic, Date20210110, Present, Active)
EntryNA == Entry(<<"N", "A">>, Date20200702, <<>>, Loan)
\* an element of the JSON list that is no object
EntryNoDict ==
    [ is_dict |-> FALSE, team |-> <<>>, date_start |-> <<>>, date_end |-> <<>>,
      status |-> <<>> ]

\* the entries the first player's career is drawn from
Entries == { EntrySentinels, EntryTier, EntryFnatic, EntryNoDict }
\* the entries the second player's career is drawn from
OtherEntries == { EntrySentinels, EntryNA }

\* the career_history cells: a list of at most n entries, an empty cell, or
\* text that is no JSON
Careers(E, n) == { JsonList(entries) : entries \in StringsUpTo(E, n) } \cup {NoneCell, BadJson}

P1 == <<"p", "1">>
P2 == <<"p", "2">>

FirstPlayer(career) ==
    [ player_id |-> P1, real_name |-> <<"K", "i", "m">>, country |-> <<"K", "R">>,
      current_team |-> Fnatic, status |-> Active, career_history |-> career ]

\* the second row may repeat the first row's player_id: the scrapers append
\* the rows of every portal table without comparing ids
OtherPlayer(player_id, career) ==
    [ player_id |-> player_id, real_name |-> <<"A", "n", "a">>, country |-> <<"B", "R">>,
      current_team |-> <<>>, status |-> Retired, career_history |-> career ]

PlayerTables ==
    {<<>>}
    \cup { <<FirstPlayer(c)>> : c \in Careers(Entries, MaxCareer) }
    \cup { <<FirstPlayer(c), OtherPlayer(id, d)>> :
             c \in Careers(Entries, MaxCareer),
             id \in {P1, P2},
             d \in Careers(OtherEntries, MaxOtherCareer) }

\* the dates datetime.now() is drawn from
Nows == { <<2026, 11, 4>> }

\* how often the derived tables are built in one run
MaxDeriveRuns == 2

----------------------------------------------------------------------------
(* The run of the builder followed by the cleaner *)

Idle == NoTable

PipelineInit ==
    /\ pc = "build_career_stints_table"
    /\ now \in Nows
    /\ players_df \in PlayerTables
    /\ career_stints_df = NoTable
    /\ team_transitions_df = NoTable
    /\ player_stats_df = NoTable
    /\ derive_runs = 0
    /\ stints_clean = NoTable
    /\ transitions_clean = NoTable
    /\ stats_clean = NoTable
    /\ main_df = Idle /\ supp_df = Idle /\ combined_df = Idle
    /\ call = Idle /\ ret = Idle

mergeVars == <<main_df, supp_df, combined_df>>
callVars == <<call, ret>>
cleanVars == <<stints_clean, transitions_clean, stats_clean>>

\* CareerHistoryDatabase.build_career_stints_table
build_career_stints_table ==
    /\ pc = "build_career_stints_table"
    /\ career_stints_df' = CareerStints(players_df, now)
    /\ pc' = "build_team_transitions_table"
    /\ UNCHANGED <<now, players_df, team_transitions_df, player_stats_df, derive_runs,
                   cleanVars, mergeVars, callVars>>

\* CareerHistoryDatabase.build_team_transitions_table; a stints table without
\* rows has no player_id column, and the lookup raises KeyError
build_team_transitions_table ==
    /\ pc = "build_team_transitions_table"
    /\ IF career_stints_df = <<>>
       THEN /\ pc' = "KeyError"
            /\ UNCHANGED team_transitions_df
       ELSE /\ team_transitions_df' = TeamTransitions(career_stints_df)
            /\ pc' = "build_player_stats_table"
    /\ UNCHANGED <<now, players_df, career_stints_df, player_stats_df, derive_runs,
                   cleanVars, mergeVars, callVars>>

\* CareerHistoryDatabase.build_player_stats_table
build_player_stats_table ==
    /\ pc = "build_player_stats_table"
    /\ player_stats_df' = PlayerStats(players_df, career_stints_df)
    /\ derive_runs' = derive_runs + 1
    /\ pc' = "built"
    /\ UNCHANGED <<now, players_df, career_stints_df, team_transitions_df,
                   cleanVars, mergeVars, callVars>>

\* the caller builds the two derived tables once more from the same stints
derive_again ==
    /\ pc = "built"
    /\ derive_runs < MaxDeriveRuns
    /\ pc' = "build_team_transitions_table"
    /\ UNCHANGED <<now, players_df, career_stints_df, team_transitions_df,
                   player_stats_df, derive_runs, cleanVars, mergeVars, callVars>>

\* the cleaning steps of clean_database on the three loaded tables; done is
\* the position after a run that raised nothing
CleanTables(stints_df, transitions_df, stats_df, done) ==
    IF \/ DividesByZero(stints_df)
       \/ transitions_df # NoTable /\ DividesByZero(transitions_df)
    THEN /\ pc' = "ZeroDivisionError"
         /\ UNCHANGED cleanVars
    ELSE LET stints_clean_df == clean_stints(stints_df)
         IN /\ stints_clean' = stints_clean_df
            /\ transitions_clean' = IF transitions_df # NoTable
                                    THEN clean_transitions(transitions_df)
                                    ELSE NoTable
            /\ stats_clean' = recalculate_player_stats(stints_clean_df, stats_df)
            /\ pc' = done

\* DatabaseCleaner.clean_database on the three exported tables
clean_database ==
    /\ pc = "built"
    /\ CleanTables(ReadStintsCsv(career_stints_df),
                   ReadTransitionsCsv(team_transitions_df),
                   ReadStatsCsv(player_stats_df), "cleaned")
    /\ UNCHANGED <<now, players_df, career_stints_df, team_transitions_df,
                   player_stats_df, derive_runs, mergeVars, callVars>>

\* DatabaseCleaner.clean_database on the three files it wrote itself; the
\* statistics file of a table without rows has no header line, and reading
\* it raises EmptyDataError outside any try
clean_again ==
    /\ pc = "cleaned"
    /\ IF stats_clean = <<>>
       THEN /\ pc' = "EmptyDataError"
            /\ UNCHANGED cleanVars
       ELSE CleanTables(ReadStintsCsv(stints_clean),
                        ReadCleanTransitionsCsv(transitions_clean),
                        ReadStatsCsv(stats_clean), "recleaned")
    /\ UNCHANGED <<now, players_df, career_stints_df, team_transitions_df,
                   player_stats_df, derive_runs, mergeVars, callVars>>

Next ==
    \/ build_career_stints_table
    \/ build_team_transitions_table
    \/ build_player_stats_table
    \/ derive_again
    \/ clean_database
    \/ clean_again

Spec == PipelineInit /\ [][Next]_vars

----------------------------------------------------------------------------
(* database_merger.merge_databases *)

\* pd.concat([main_df, supp_df], ignore_index=True)
Concat(main, supp) == main \o supp

\* drop_duplicates called without keeping its result
KeepDuplicates(df) == df

RECURSIVE DropDuplicatesKeepLast(_)
\* drop_duplicates with keep='last'
DropDuplicatesKeepLast(df) ==
    IF df = <<>> THEN <<>>
    ELSE IF \E i \in 2..Len(df) : df[i].player_id = Head(df).player_id
         THEN DropDuplicatesKeepLast(Tail(df))
         ELSE <<Head(df)>> \o DropDuplicatesKeepLast(Tail(df))

RECURSIVE DropDuplicates(_)
\* df.drop_duplicates(subset=['player_id'], keep='first'): a row goes when an
\* earlier row has its player_id
DropDuplicates(df) ==
    IF df = <<>> THEN <<>>
    ELSE LET kept == DropDuplicates(SubSeq(df, 1, Len(df) - 1))
             last == df[Len(df)]
         IN IF \E i \in 1..(Len(df) - 1) : df[i].player_id = last.player_id
            THEN kept
            ELSE Append(kept, last)

\* the collection merge_databases returns as combined_df
MergedPlayers(main, supp) == DropDuplicates(Concat(main, supp))

\* the player records the two collections are drawn from: two ids, and two
\* contents for each id
MergeRecords ==
    { [player_id |-> id, real_name |-> name] :
        id \in {P1, P2}, name \in { <<"K", "i", "m">>, <<"A", "n", "a">> } }

\* the collections of at most MaxMerge records
MergeTables == StringsUpTo(MergeRecords, MaxMerge)

pipelineVars == <<now, players_df, career_stints_df, team_transitions_df,
                  player_stats_df, derive_runs, cleanVars>>

PipelineIdle ==
    /\ now \in Nows
    /\ players_df = Idle
    /\ career_stints_df = Idle
    /\ team_transitions_df = Idle
    /\ player_stats_df = Idle
    /\ derive_runs = 0
    /\ stints_clean = Idle /\ transitions_clean = Idle /\ stats_clean = Idle

MergeInit ==
    /\ pc = "merge_databases"
    /\ main_df \in MergeTables
    /\ supp_df \in MergeTables
    /\ combined_df = NoTable
    /\ call = Idle /\ ret = Idle
    /\ PipelineIdle

\* merge_databases(main_file, supplemental_file)
merge_databases ==
    /\ pc = "merge_databases"
    /\ combined_df' = MergedPlayers(main_df, supp_df)
    /\ pc' = "merged"
    /\ UNCHANGED <<main_df, supp_df, callVars, pipelineVars>>

MergeNext == merge_databases

MergeSpec == MergeInit /\ [][MergeNext]_vars

----------------------------------------------------------------------------
(* One call of DatabaseCleaner.is_fake_team *)

\* the characters the generated team names are written with
NameAlphabet == {"1", "t", "h", "S", "-", " "}

\* the team names given to the classifier: every short string over the
\* alphabet, names of the denylist and of real teams in several spellings,
\* blank strings, and the missing value
TeamNames ==
    StringsUpTo(NameAlphabet, MaxNameLen)
    \cup fake_teams_exact
    \cup { Sentinels, Fnatic, Ord3rd4th, NaN,
           <<" ", " ", " ", " ">>, <<"\t", " ", "\n">>,
           <<" ", "S", "-", "T", "i", "e", "r", " ">>,
           <<"s", "-", "t", "i", "e", "r">>,
           <<"1", "2", "T", "H", " ", " ", "-", "1", "3", "t", "h">>,
           <<"q", "u", "a", "l", "i", "f", "i", "e", "r", "s">>,
           <<"T", "e", "a", "m", " ", "1", "s", "t">> }

ClassifyInit ==
    /\ pc = "is_fake_team"
    /\ call \in TeamNames
    /\ ret = Idle
    /\ main_df = Idle /\ supp_df = Idle /\ combined_df = Idle
    /\ PipelineIdle

\* cleaner.is_fake_team(team_name)
call_is_fake_team ==
    /\ pc = "is_fake_team"
    /\ ret' = is_fake_team(call)
    /\ pc' = "returned"
    /\ UNCHANGED <<call, mergeVars, pipelineVars>>

ClassifyNext == call_is_fake_team

ClassifySpec == ClassifyInit /\ [][ClassifyNext]_vars

----------------------------------------------------------------------------
(* build_career_stints_table on one player with one career entry *)

\* the year, month and day texts the date strings are composed of
YearTexts == { <<"2", "0", "1", "9">>, <<"2", "0", "2", "0">> }
MonthTexts == { <<"0", "2">>, <<"2">>, <<"1", "2">>, <<"1", "3">> }
DayTexts == { <<"0", "1">>, <<"2", "9">>, <<"3", "1">>, <<"7">> }

\* the values of date_start and date_end: composed dates (some of them no
\* calendar dates), the empty string, spellings of Present, and other text
DateTexts ==
    { y \o <<"-">> \o m \o <<"-">> \o d : y \in YearTexts, m \in MonthTexts, d \in DayTexts }
    \cup { <<>>, Present, PresentLower, Date20200413, Date20200702,
           <<"2", "0", "2", "0">>,
           <<"2", "0", "2", "0", "0", "4", "1", "3">>,
           <<"2", "0", "2", "0", "-", "0", "4", "-", "1", "3", " ">>,
           <<"0", "0", "0", "0", "-", "0", "1", "-", "0", "1">>,
           <<"T", "B", "D">> }

\* the dates datetime.now() is drawn from in these calls
CallNows == { <<2020, 3, 1>>, <<2026, 11, 4>> }

StintInit ==
    /\ pc = "build_career_stints_table"
    /\ call \in { Entry(Sentinels, date_start, date_end, Active) :
                    date_start \in DateTexts, date_end \in DateTexts }
    /\ ret = Idle
    /\ main_df = Idle /\ supp_df = Idle /\ combined_df = Idle
    /\ now \in CallNows
    /\ players_df = Idle
    /\ career_stints_df = Idle
    /\ team_transitions_df = Idle
    /\ player_stats_df = Idle
    /\ derive_runs = 0
    /\ stints_clean = Idle /\ transitions_clean = Idle /\ stats_clean = Idle

\* build_career_stints_table for a players file of one row
build_one_stint ==
    /\ pc = "build_career_stints_table"
    /\ ret' = CareerStints(<<FirstPlayer(JsonList(<<call>>))>>, now)
    /\ pc' = "returned"
    /\ UNCHANGED <<call, mergeVars, pipelineVars>>

StintNext == build_one_stint

StintSpec == StintInit /\ [][StintNext]_vars

(* The scrapers' normaliser: one history table row into one career entry *)

\* the character U+2014 of the date ranges, written as an ASCII character
\* that occurs in no other text here
EmDash == "~"

\* the upper-case letter of every lower-case letter
UpperOfLower ==
    [ c \in { LowerLetters[i] : i \in 1..Len(LowerLetters) } |->
        UpperLetters[CHOOSE i \in 1..Len(LowerLetters) : LowerLetters[i] = c] ]

\* a cased character
IsLetter(c) == c \in DOMAIN UpperOfLower \/ c \in DOMAIN LowerOfUpper

\* str.upper on one character
UpperChar(c) == IF c \in DOMAIN UpperOfLower THEN UpperOfLower[c] ELSE c

\* str.title: a letter that follows no letter is upper-cased, every other
\* letter lower-cased
Title(s) ==
    [ i \in 1..Len(s) |->
        IF i = 1 \/ ~IsLetter(s[i - 1]) THEN UpperChar(s[i]) ELSE LowerChar(s[i]) ]

\* \d{4}-\d{2}-\d{2} matches s from position i
IsoDateAt(s, i) ==
    /\ i + 9 <= Len(s)
    /\ \A k \in {0, 1, 2, 3, 5, 6, 8, 9} : IsDigit(s[i + k])
    /\ s[i + 4] = "-"
    /\ s[i + 7] = "-"

\* re.search(r'(\d{4}-\d{2}-\d{2})', date_range): the leftmost match
_extract_start_date(date_range) ==
    LET hits == { i \in 1..Len(date_range) : IsoDateAt(date_range, i) }
    IN IF hits = {} THEN <<>>
       ELSE LET first == CHOOSE i \in hits : \A j \in hits : i <= j
            IN SubSeq(date_range, first, first + 9)

RECURSIVE FindAllIsoDates(_, _)
\* re.findall(r'(\d{4}-\d{2}-\d{2})', s) from position i: the scan goes on
\* behind the end of each match
FindAllIsoDates(s, i) ==
    IF i + 9 > Len(s) THEN <<>>
    ELSE IF IsoDateAt(s, i)
         THEN <<SubSeq(s, i, i + 9)>> \o FindAllIsoDates(s, i + 10)
         ELSE FindAllIsoDates(s, i + 1)

\* the end date taken from a single match too: len(matches) > 0
LastDateOfAny(matches) == IF Len(matches) > 0 THEN matches[Len(matches)] ELSE <<>>

\* matches[-1] if len(matches) > 1 else ''
LastDateOfSeveral(matches) == IF Len(matches) > 1 THEN matches[Len(matches)] ELSE <<>>

\* _extract_end_date, the same text in the three scrapers
_extract_end_date(date_range) ==
    IF Contains(date_range, Present) \/ Contains(date_range, PresentLower)
    THEN Present
    ELSE LastDateOfSeveral(FindAllIsoDates(date_range, 1))

\* the positions where \(([^)]+)\) matches: an opening parenthesis, at least
\* one character that closes none, and the closing parenthesis
GroupStarts(s) ==
    { j \in 1..Len(s) :
        /\ s[j] = "("
        /\ \E k \in (j + 2)..Len(s) :
              s[k] = ")" /\ \A m \in (j + 1)..(k - 1) : s[m] # ")" }

\* the closing parenthesis of the group that opens at j
GroupEnd(s, j) ==
    CHOOSE k \in (j + 2)..Len(s) : s[k] = ")" /\ \A m \in (j + 1)..(k - 1) : s[m] # ")"

\* the positions where \s*\([^)]+\)\s*$ matches
TrailingGroupStarts(s) ==
    { i \in 1..Len(s) :
        \E j \in i..Len(s) :
            /\ \A m \in i..(j - 1) : IsSpace(s[m])
            /\ j \in GroupStarts(s)
            /\ \A m \in (GroupEnd(s, j) + 1)..Len(s) : IsSpace(s[m]) }

\* the text stripped, no group removed
StripOnly(team_text) == Strip(team_text)

\* _clean_team_name: re.sub removes the leftmost match, which ends the text
_clean_team_name(team_text) ==
    LET starts == TrailingGroupStarts(team_text)
    IN IF starts = {} THEN Strip(team_text)
       ELSE LET first == CHOOSE i \in starts : \A j \in starts : i <= j
            IN Strip(SubSeq(team_text, 1, first - 1))

InactiveLower == Lower(Inactive)
LoanLower == Lower(Loan)
StandInLower == Lower(StandIn)
StandinLower == <<"s", "t", "a", "n", "d", "i", "n">>
Trial == <<"T", "r", "i", "a", "l">>
TrialLower == Lower(Trial)

\* match.group(1).strip().lower() of re.search(r'\(([^)]+)\)', team_text):
\* the contents of the leftmost group; None where nothing matches
FirstGroupStatus(team_text) ==
    LET starts == GroupStarts(team_text)
    IN IF starts = {} THEN None
       ELSE LET first == CHOOSE j \in starts : \A k \in starts : j <= k
            IN Lower(Strip(SubSeq(team_text, first + 1, GroupEnd(team_text, first) - 1)))

\* _extract_status of OptimizedCareerScraper and GlobalValorantScraper
_extract_status(team_text) ==
    LET status == FirstGroupStatus(team_text)
    IN IF status = None THEN Active
       ELSE IF Contains(status, InactiveLower) THEN Inactive
       ELSE IF Contains(status, LoanLower) THEN Loan
       ELSE IF Contains(status, StandInLower) \/ Contains(status, StandinLower) THEN StandIn
       ELSE IF Contains(status, TrialLower) THEN Trial
       ELSE Title(status)

\* _extract_status of CategoryPlayerScraper: no branch for trial
CategoryExtractStatus(team_text) ==
    LET status == FirstGroupStatus(team_text)
    IN IF status = None THEN Active
       ELSE IF Contains(status, InactiveLower) THEN Inactive
       ELSE IF Contains(status, LoanLower) THEN Loan
       ELSE IF Contains(status, StandInLower) \/ Contains(status, StandinLower) THEN StandIn
       ELSE Title(status)

\* re.search(r'\d{4}', date_text): the row is taken for a career entry
HasYear(date_text) ==
    \E i \in 1..(Len(date_text) - 3) : AllDigits(SubSeq(date_text, i, i + 3))

Optimized == "OptimizedCareerScraper"
Global == "GlobalValorantScraper"
Category == "CategoryPlayerScraper"
Scrapers == { Optimized, Global, Category }

\* the career the table-row loop of extract_career_history / _parse_history_table
\* returns for a table of one row
ParseHistoryRow(scraper, date_text, team_text) ==
    IF HasYear(date_text)
    THEN << Entry(_clean_team_name(team_text),
                  _extract_start_date(date_text),
                  _extract_end_date(date_text),
                  IF scraper = Category THEN CategoryExtractStatus(team_text)
                  ELSE _extract_status(team_text)) >>
    ELSE <<>>

\* the texts of the two cells of a history row, as get_text(strip=True)
\* returns them
TeamX == <<"T", "e", "a", "m", " ", "X">>
PresentUpper == <<"P", "R", "E", "S", "E", "N", "T">>
RangeSep == <<" ", EmDash, " ">>

\* the two ends a date range is written with
DateParts == { Date20200413, Date20200702, Date20210110, Present, PresentLower,
               PresentUpper }

\* the first cell: every pair of ends, a single date, three dates, a date
\* followed by a year-month-day of two-digit year, a date of one-digit month,
\* a year, other text, and no text
DateRangeTexts ==
    { a \o RangeSep \o b : a \in DateParts, b \in DateParts }
    \cup { Date20200413,
           Date20200413 \o RangeSep \o Date20200702 \o RangeSep \o Date20210110,
           <<"2", "0", "2", "0", "-", "0", "1", "-", "0", "1",
             "2", "0", "-", "0", "1", "-", "0", "1">>,
           <<"2", "0", "2", "0", "-", "4", "-", "1", "3">> \o RangeSep \o Date20200702,
           <<"2", "0", "2", "0">>,
           TBD,
           <<>> }

\* the parenthesised groups a team label is written with
LabelGroups ==
    { <<>>,
      <<" ", "(", "I", "n", "a", "c", "t", "i", "v", "e", ")">>,
      <<" ", "(", "L", "O", "A", "N", ")">>,
      <<" ", "(", "S", "t", "a", "n", "d", "-", "i", "n", ")">>,
      <<"(", "s", "t", "a", "n", "d", "i", "n", " ", ")">>,
      <<" ", "(", "o", "n", " ", "t", "r", "i", "a", "l", ")">>,
      <<" ", "(", "s", "u", "b", " ", "2", "n", "d", ")">>,
      <<" ", "(", ")">> }
SecondGroups ==
    { <<>>, <<" ", "(", "L", "o", "a", "n", ")">>, <<" ", "(", "s", "u", "b", ")">>,
      <<" ", "(", "b", " ", "(", "c", ")">> }
LabelTails == { <<>>, <<" ", "B">> }

\* the second cell: a name, up to two groups, and text behind them; a plain
\* team name
TeamLabelTexts ==
    { Strip(name \o g1 \o g2 \o tail) :
        name \in {TeamX, <<>>}, g1 \in LabelGroups, g2 \in SecondGroups,
        tail \in LabelTails }
    \cup { Sentinels }

----------------------------------------------------------------------------
(* One scraped history row, normalised and built into the stints table *)

ScrapeInit ==
    /\ pc = "extract_career_history"
    /\ call \in { [scraper |-> s, date_text |-> d, team_text |-> t] :
                    s \in Scrapers, d \in DateRangeTexts, t \in TeamLabelTexts }
    /\ ret = Idle
    /\ main_df = Idle /\ supp_df = Idle /\ combined_df = Idle
    /\ now \in Nows
    /\ players_df = Idle
    /\ career_stints_df = Idle
    /\ team_transitions_df = Idle
    /\ player_stats_df = Idle
    /\ derive_runs = 0
    /\ stints_clean = Idle /\ transitions_clean = Idle /\ stats_clean = Idle

\* get_player_details: the career is stored as JSON, None when it is empty
get_player_details ==
    /\ pc = "extract_career_history"
    /\ LET career == ParseHistoryRow(call.scraper, call.date_text, call.team_text)
       IN players_df' = << FirstPlayer(IF career # <<>> THEN JsonList(career)
                                       ELSE NoneCell) >>
    /\ pc' = "build_career_stints_table"
    /\ UNCHANGED <<now, career_stints_df, team_transitions_df, player_stats_df,
                   derive_runs, cleanVars, mergeVars, callVars>>

\* build_career_stints_table on the scraped players file
build_scraped_stints ==
    /\ pc = "build_career_stints_table"
    /\ career_stints_df' = CareerStints(players_df, now)
    /\ pc' = "built"
    /\ UNCHANGED <<now, players_df, team_transitions_df, player_stats_df,
                   derive_runs, cleanVars, mergeVars, callVars>>

ScrapeNext ==
    \/ get_player_details
    \/ build_scraped_stints

ScrapeSpec == ScrapeInit /\ [][ScrapeNext]_vars

----------------------------------------------------------------------------
(* Properties *)

\* the rows of a table that carry the player_id
RowCount(table, id) == Cardinality({ i \in 1..Len(table) : table[i].player_id = id })

\* the player_ids of the players file
PlayerIdsOf(players) == { players[i].player_id : i \in 1..Len(players) }

\* the player_ids that occur in exactly one row of the players file
SingleRowIds(players) == { id \in PlayerIdsOf(players) : RowCount(players, id) = 1 }

AtLeastZero(n) == IF n > 0 THEN n ELSE 0

\* the team column of the rows of one player, in table order
TeamsOf(table, id) ==
    LET rows == SelectSeq(table, LAMBDA row : row.player_id = id)
    IN [ i \in 1..Len(rows) |-> rows[i].team ]

\* C1: once build_team_transitions_table has stored its table, every player
\* has max(0, stints - 1) transitions; a player with one stint has none.
C1_TransitionCountAfterBuild ==
    team_transitions_df # NoTable =>
        \A id \in PlayerIdsOf(players_df) :
            RowCount(team_transitions_df, id)
              = AtLeastZero(RowCount(career_stints_df, id) - 1)

\* a run with a player of three stints (two transitions) and a player of one
\* stint (no transition)
C1_Witness ==
    /\ team_transitions_df # NoTable
    /\ RowCount(career_stints_df, P1) = 3
    /\ RowCount(team_transitions_df, P1) = 2
    /\ RowCount(career_stints_df, P2) = 1
    /\ RowCount(team_transitions_df, P2) = 0

\* the transitions of a player in the cleaner's result; a result of None
\* (no transitions file) has none
CleanTransitionCount(id) ==
    IF transitions_clean = NoTable THEN 0 ELSE RowCount(transitions_clean, id)

\* C2: after clean_database every player has max(0, cleaned stints - 1)
\* cleaned transitions, wherever the noise stints stood in the career.
C2_TransitionCountAfterClean ==
    pc = "cleaned" =>
        \A id \in PlayerIdsOf(players_df) :
            CleanTransitionCount(id) = AtLeastZero(RowCount(stints_clean, id) - 1)

\* C3: a player built with the stints [A, B, C], B a noise team and A, C real
\* teams, leaves the cleaner with the stints [A, C] and the single transition
\* from A to C.
C3_NoiseInTheMiddle ==
    pc = "cleaned" =>
        \A id \in SingleRowIds(players_df) :
            LET built == TeamsOf(career_stints_df, id) IN
            ( /\ Len(built) = 3
              /\ ~is_fake_team(built[1])
              /\ is_fake_team(built[2])
              /\ ~is_fake_team(built[3]) )
            => /\ TeamsOf(stints_clean, id) = <<built[1], built[3]>>
               /\ transitions_clean # NoTable
               /\ RowCount(transitions_clean, id) = 1
               /\ \A i \in 1..Len(transitions_clean) :
                     transitions_clean[i].player_id = id
                     => /\ transitions_clean[i].from_team = built[1]
                        /\ transitions_clean[i].to_team = built[3]

\* C4: after clean_database the surviving stints of every player are numbered
\* 1..k in their order, k the number of the player's surviving stints.
C4_StintNumbersResequenced ==
    pc = "cleaned" =>
        \A id \in SingleRowIds(players_df) :
            LET rows == SelectSeq(stints_clean, LAMBDA row : row.player_id = id)
            IN \A k \in 1..Len(rows) : rows[k].stint_number = k

\* date a comes before date b; dates are <<year, month, day>>
DateBefore(a, b) ==
    \/ a[1] < b[1]
    \/ a[1] = b[1] /\ a[2] < b[2]
    \/ a[1] = b[1] /\ a[2] = b[2] /\ a[3] < b[3]

RECURSIVE AddDays(_, _)
\* the date n days after the date, counted through the calendar month by month
AddDays(date, n) ==
    LET left == DaysInMonth(date[1], date[2]) - date[3] IN
    IF n <= left THEN <<date[1], date[2], date[3] + n>>
    ELSE IF date[2] = 12 THEN AddDays(<<date[1] + 1, 1, 1>>, n - left - 1)
    ELSE AddDays(<<date[1], date[2] + 1, 1>>, n - left - 1)

\* the start and the end of the entry given to build_career_stints_table, as
\* calendar dates; None for text that is no date; datetime.now() for Present
CallStart == Strptime(call.date_start)
CallEnd ==
    IF Contains(Lower(call.date_end), PresentLower) THEN now ELSE Strptime(call.date_end)

\* C5: the duration_days of a built stint is a natural number: 0 when a bound
\* is empty or no calendar date, 0 when the end lies before the start, and
\* otherwise the days from the start to the end (to now for Present).
C5_DurationDays ==
    pc = "returned" =>
        LET days == ret[1].duration_days IN
        /\ days \in Nat
        /\ (call.date_start = <<>> \/ call.date_end = <<>>) => days = 0
        /\ (CallStart = None \/ CallEnd = None) => days = 0
        /\ (CallStart # None /\ CallEnd # None /\ call.date_end # <<>>) =>
              IF DateBefore(CallEnd, CallStart)
              THEN days = 0
              ELSE AddDays(CallStart, days) = CallEnd

\* the stint of 2020-04-13 to 2020-07-02 was built and lasts 80 days
C5_Witness ==
    /\ pc = "returned"
    /\ call.date_start = Date20200413
    /\ call.date_end = Date20200702
    /\ ret[1].duration_days = 80

\* the team names of the rows of one player
TeamSetOf(table, id) == { table[i].team : i \in { j \in 1..Len(table) : table[j].player_id = id } }

\* a statistics row agrees with the stints it was computed from
StatsRowCounts(row, stints) ==
    /\ row.total_teams = RowCount(stints, row.player_id)
    /\ row.unique_teams = Cardinality(TeamSetOf(stints, row.player_id))
    /\ row.unique_teams <= row.total_teams
    /\ row.teams_played_multiple_times = row.total_teams - row.unique_teams

\* C6: every row of the built statistics and every row of the cleaner's
\* recalculated statistics has unique_teams <= total_teams and
\* teams_played_multiple_times = total_teams - unique_teams, total_teams being
\* the player's stints and unique_teams the distinct team names among them.
C6_UniqueTeamsWithinTotal ==
    /\ player_stats_df # NoTable =>
          \A i \in 1..Len(player_stats_df) :
              StatsRowCounts(player_stats_df[i], career_stints_df)
    /\ pc = "cleaned" =>
          \A i \in 1..Len(stats_clean) : StatsRowCounts(stats_clean[i], stints_clean)

\* a cleaned run in which a player came back to a team: three stints built
\* for two teams, two stints left for one team
C6_Witness ==
    /\ pc = "cleaned"
    /\ \E i \in 1..Len(player_stats_df) :
          /\ player_stats_df[i].total_teams = 3
          /\ player_stats_df[i].unique_teams = 2
    /\ \E i \in 1..Len(stats_clean) :
          /\ stats_clean[i].total_teams = 2
          /\ stats_clean[i].unique_teams = 1
          /\ stats_clean[i].teams_played_multiple_times = 1

Concatenated == main_df \o supp_df

\* the rows of the concatenation whose player_id no earlier row has
FirstOccurrences ==
    { i \in 1..Len(Concatenated) :
        \A j \in 1..(i - 1) : Concatenated[j].player_id # Concatenated[i].player_id }

\* the k-th smallest of the first occurrences
KthFirstOccurrence(k) ==
    CHOOSE i \in FirstOccurrences : Cardinality({ j \in FirstOccurrences : j <= i }) = k

\* C8: merge_databases returns the concatenation of main and supplemental
\* without the rows whose player_id occurred earlier: no player_id twice, the
\* main record kept for an id of both inputs, the order of the concatenation.
C8_MergeKeepsFirstOccurrences ==
    pc = "merged" =>
        /\ Len(combined_df) = Cardinality(FirstOccurrences)
        /\ \A k \in 1..Len(combined_df) :
              combined_df[k] = Concatenated[KthFirstOccurrence(k)]
        /\ \A k, l \in 1..Len(combined_df) :
              combined_df[k].player_id = combined_df[l].player_id => k = l
        /\ \A i \in 1..Len(main_df) : \A j \in 1..Len(supp_df) :
              ( /\ main_df[i].player_id = supp_df[j].player_id
                /\ \A h \in 1..(i - 1) : main_df[h].player_id # main_df[i].player_id )
              => \E k \in 1..Len(combined_df) : combined_df[k] = main_df[i]

\* a merge in which the supplemental collection repeats an id of the main
\* collection with another content and brings a new id
C8_Witness ==
    /\ pc = "merged"
    /\ Len(main_df) = 1
    /\ Len(supp_df) = 2
    /\ supp_df[1].player_id = main_df[1].player_id
    /\ supp_df[1] # main_df[1]
    /\ supp_df[2].player_id # main_df[1].player_id
    /\ combined_df = <<main_df[1], supp_df[2]>>

\* no player_id occurs twice in the collection
DistinctIds(df) ==
    \A i, j \in 1..Len(df) : df[i].player_id = df[j].player_id => i = j

\* C9 as stated: a collection merged with itself comes back unchanged.
C9_SelfMergeIsIdentity ==
    (pc = "merged" /\ main_df = supp_df) => combined_df = main_df

\* C9: a collection in which no player_id occurs twice, merged with itself,
\* comes back unchanged: the same records in the same order.
C9_SelfMergeOfDistinctIds ==
    (pc = "merged" /\ main_df = supp_df /\ DistinctIds(main_df)) => combined_df = main_df

\* a collection of two players merged with itself
C9_Witness ==
    /\ pc = "merged"
    /\ main_df = supp_df
    /\ Len(main_df) = 2
    /\ DistinctIds(main_df)
    /\ combined_df = main_df

\* the string is empty or holds only whitespace
IsBlank(text) == \A i \in 1..Len(text) : text[i] \in {" ", "\t", "\n"}

\* C10: is_fake_team returns a boolean for every string: TRUE for "S-Tier",
\* for "3rd - 4th", for the empty string and for every blank string, FALSE for
\* "Sentinels".
C10_ClassifierTotalOnExamples ==
    pc = "returned" =>
        /\ ret \in BOOLEAN
        /\ call = S_Tier => ret = TRUE
        /\ call = Ord3rd4th => ret = TRUE
        /\ (call # NaN /\ IsBlank(call)) => ret = TRUE
        /\ call = Sentinels => ret = FALSE

\* the classifier has returned FALSE for "Sentinels"
C10_Witness ==
    /\ pc = "returned"
    /\ call = Sentinels
    /\ ret = FALSE

----------------------------------------------------------------------------
(* The normaliser and the stints built from its entries *)

\* the row "2020-04-13 (U+2014) 2020-07-02" | "Team X (Inactive)"
ScenarioRange == Date20200413 \o RangeSep \o Date20200702
ScenarioLabel == TeamX \o <<" ", "(", "I", "n", "a", "c", "t", "i", "v", "e", ")">>

\* C11: the history row with date range 2020-04-13 (dash) 2020-07-02 and team
\* label "Team X (Inactive)" is built into exactly one stint with date_start
\* 2020-04-13, date_end 2020-07-02, team "Team X", status Inactive and
\* duration_days 80, whichever scraper normalised it.
C11_ScenarioStint ==
    (pc = "built" /\ call.date_text = ScenarioRange /\ call.team_text = ScenarioLabel)
        => /\ Len(career_stints_df) = 1
           /\ career_stints_df[1].date_start = Date20200413
           /\ career_stints_df[1].date_end = Date20200702
           /\ career_stints_df[1].team = TeamX
           /\ career_stints_df[1].stint_status = Inactive
           /\ career_stints_df[1].duration_days = 80

\* the scenario row has been normalised and built, and the stint lasts 80 days
C11_Witness ==
    /\ pc = "built"
    /\ call.date_text = ScenarioRange
    /\ call.team_text = ScenarioLabel
    /\ career_stints_df # <<>>
    /\ career_stints_df[1].duration_days = 80
    /\ career_stints_df[1].team = TeamX

\* C12: every stint built from a scraped row has is_current_team true exactly
\* when its date_end is the text "Present"; the row whose range is
\* 2021-01-10 (dash) Present is built into a stint with is_current_team true.
C12_CurrentIffPresent ==
    pc = "built" =>
        /\ \A i \in 1..Len(career_stints_df) :
              career_stints_df[i].is_current_team <=> (career_stints_df[i].date_end = Present)
        /\ call.date_text = Date20210110 \o RangeSep \o Present
              => /\ Len(career_stints_df) = 1
                 /\ career_stints_df[1].is_current_team

\* the row 2021-01-10 (dash) Present | Sentinels has been built into a current stint
C12_Witness ==
    /\ pc = "built"
    /\ call.date_text = Date20210110 \o RangeSep \o Present
    /\ call.team_text = Sentinels
    /\ career_stints_df # <<>>
    /\ career_stints_df[1].is_current_team
    /\ career_stints_df[1].year_end = now[1]

----------------------------------------------------------------------------
(* The built tables and the players file *)

\* the stint_number column of the rows of one player, in table order
StintNumbersOf(table, id) ==
    LET rows == SelectSeq(table, LAMBDA row : row.player_id = id)
    IN [ i \in 1..Len(rows) |-> rows[i].stint_number ]

\* the stint_id column of a table
StintIdsOf(table) == [ i \in 1..Len(table) |-> table[i].stint_id ]

\* the sequence of numbers rises strictly
StrictlyIncreasing(numbers) ==
    \A i \in 1..(Len(numbers) - 1) : numbers[i] < numbers[i + 1]

\* C13: in the stints table of any players file, the stint_number values of
\* each player_id are 1, 2, ..., n in table order, none repeated, and the
\* cleaned table keeps the rows in the order of the built table.
C13_StintNumbersOneToN ==
    /\ career_stints_df # NoTable =>
          \A id \in PlayerIdsOf(players_df) :
              LET numbers == StintNumbersOf(career_stints_df, id)
              IN \A i \in 1..Len(numbers) : numbers[i] = i
    /\ stints_clean # Idle => StrictlyIncreasing(StintIdsOf(stints_clean))

\* the career history of the player is missing, null or an empty list
MissingCareer(player) ==
    \/ player.career_history.cell = "none"
    \/ player.career_history.cell = "list" /\ player.career_history.entries = <<>>

\* the player_ids all of whose players-file rows have no career history
IdsWithoutCareer(players) ==
    { id \in PlayerIdsOf(players) :
        \A k \in 1..Len(players) : players[k].player_id = id => MissingCareer(players[k]) }

\* the career is a list of entries that are all records
WellFormedCareer(player) ==
    /\ player.career_history.cell = "list"
    /\ \A i \in 1..Len(player.career_history.entries) :
          player.career_history.entries[i].is_dict

\* C14: build_career_stints_table ends without an error on a players file
\* that holds players without career history; such a player has no stint, no
\* transition and no statistics row, and every other player of a well-formed
\* career still has one stint per entry.
C14_MissingCareerIsLegal ==
    /\ pc = "build_career_stints_table" \/ career_stints_df # NoTable
    /\ career_stints_df # NoTable =>
          /\ \A id \in IdsWithoutCareer(players_df) : RowCount(career_stints_df, id) = 0
          /\ \A id \in SingleRowIds(players_df) :
                \A k \in 1..Len(players_df) :
                    (players_df[k].player_id = id /\ WellFormedCareer(players_df[k]))
                        => RowCount(career_stints_df, id)
                             = Len(players_df[k].career_history.entries)
    /\ team_transitions_df # NoTable =>
          \A id \in IdsWithoutCareer(players_df) : RowCount(team_transitions_df, id) = 0
    /\ player_stats_df # NoTable =>
          \A id \in IdsWithoutCareer(players_df) : RowCount(player_stats_df, id) = 0

\* a built database of two players: the first with stints and a statistics
\* row, the second without career history and without rows
C14_Witness ==
    /\ pc = "built"
    /\ Len(players_df) = 2
    /\ players_df[2].player_id = P2
    /\ MissingCareer(players_df[2])
    /\ RowCount(career_stints_df, P1) >= 2
    /\ RowCount(team_transitions_df, P1) >= 1
    /\ RowCount(player_stats_df, P1) = 1
    /\ RowCount(player_stats_df, P2) = 0

\* the player_ids that occur in a table
IdsIn(table) == { table[i].player_id : i \in 1..Len(table) }

\* stints, transitions and statistics agree: one statistics row for every
\* player_id of the stints and for no other, total_teams the number of the
\* player's stints, and every transition of a player_id of the stints
TablesAgree(stints, transitions, stats) ==
    /\ IdsIn(stats) = IdsIn(stints)
    /\ \A id \in IdsIn(stats) : RowCount(stats, id) = 1
    /\ \A i \in 1..Len(stats) : stats[i].total_teams = RowCount(stints, stats[i].player_id)
    /\ transitions # NoTable => IdsIn(transitions) \subseteq IdsIn(stints)

\* C15: after build_player_stats_table, and again after clean_database, the
\* player_ids with a statistics row are the player_ids with at least one stint
\* in the stints table of that stage, one row each, every transition carries a
\* player_id of that stints table, and total_teams is the player's stint count.
C15_StintsAndStatisticsAgree ==
    /\ pc \in {"built", "cleaned"} =>
          TablesAgree(career_stints_df, team_transitions_df, player_stats_df)
    /\ pc = "cleaned" => TablesAgree(stints_clean, transitions_clean, stats_clean)

\* the cleaner has removed every stint of the first player and with them the
\* statistics row, and kept the second player's
C15_Witness ==
    /\ pc = "cleaned"
    /\ RowCount(player_stats_df, P1) = 1
    /\ RowCount(stints_clean, P1) = 0
    /\ RowCount(stats_clean, P1) = 0
    /\ RowCount(stats_clean, P2) = 1
    /\ RowCount(stints_clean, P2) = 1

\* the entries of a career that are records
RecordEntries(career) == SelectSeq(career, LAMBDA entry : entry.is_dict)

\* C16: an entry whose processing fails is the only one skipped: every player
\* has one stint for each entry of the career that is a record, those behind
\* an entry that is none included, and so have the players behind that player.
C16_OnlyFailingEntrySkipped ==
    career_stints_df # NoTable =>
        \A id \in SingleRowIds(players_df) :
            \A k \in 1..Len(players_df) :
                (players_df[k].player_id = id /\ players_df[k].career_history.cell = "list")
                    => RowCount(career_stints_df, id)
                         = Len(RecordEntries(players_df[k].career_history.entries))

\* C17: no exception escapes build_career_stints_table,
\* build_team_transitions_table or build_player_stats_table, whatever the
\* players file, a file no player of which yields a stint included.
C17_NoExceptionEscapes == pc # "KeyError"

----------------------------------------------------------------------------
(* The entries the normaliser stores for a history row *)

\* the career entries get_player_details has stored for the scraped row
ScrapedEntries ==
    IF players_df = Idle THEN <<>> ELSE players_df[1].career_history.entries

\* the token "present" occurs in the text in some letter case
HasPresentToken(text) == Contains(Lower(text), PresentLower)

\* C18: the stored date_end is "Present" whenever "present" occurs in the
\* date-range text in any letter case, however many ISO dates the text holds.
C18_PresentInAnyCase ==
    \A i \in 1..Len(ScrapedEntries) :
        HasPresentToken(call.date_text) => ScrapedEntries[i].date_end = Present

\* the positions of the YYYY-MM-DD substrings of the text
IsoPositions(text) == { i \in 1..Len(text) : IsoDateAt(text, i) }

\* the YYYY-MM-DD substring at the least position, none: the empty string
FirstIsoDate(text) ==
    IF IsoPositions(text) = {} THEN <<>>
    ELSE LET p == CHOOSE i \in IsoPositions(text) : \A j \in IsoPositions(text) : i <= j
         IN SubSeq(text, p, p + 9)

\* the YYYY-MM-DD substring at the greatest position if there are two or
\* more substrings, else the empty string
LastOfSeveralIsoDates(text) ==
    IF Cardinality(IsoPositions(text)) < 2 THEN <<>>
    ELSE LET p == CHOOSE i \in IsoPositions(text) : \A j \in IsoPositions(text) : i >= j
         IN SubSeq(text, p, p + 9)

\* the two ends are as the sentence on date ranges without Present says
EndsAsStated(entry, text) ==
    /\ entry.date_start = FirstIsoDate(text)
    /\ entry.date_end = LastOfSeveralIsoDates(text)
    /\ Cardinality(IsoPositions(text)) = 1 => entry.date_end = <<>>

\* C19 as stated: for a date-range text without the Present token, date_start
\* is the first YYYY-MM-DD substring (else empty) and date_end the last one
\* if the text holds two or more such substrings (else empty).
C19_DateEndsAsStated ==
    \A i \in 1..Len(ScrapedEntries) :
        ~HasPresentToken(call.date_text) => EndsAsStated(ScrapedEntries[i], call.date_text)

\* no two YYYY-MM-DD substrings of the text share a character
NoOverlap(text) ==
    \A i \in IsoPositions(text) : \A j \in IsoPositions(text) : i < j => i + 10 <= j

\* C19, amended: the same for the texts no two YYYY-MM-DD substrings of which
\* overlap; a text with a single date has that date as start and no end.
C19_DateEndsWithoutOverlap ==
    \A i \in 1..Len(ScrapedEntries) :
        (~HasPresentToken(call.date_text) /\ NoOverlap(call.date_text))
            => EndsAsStated(ScrapedEntries[i], call.date_text)

\* a stored entry of the row whose text is the single date 2020-04-13
C19_Witness ==
    /\ pc = "build_career_stints_table"
    /\ call.date_text = Date20200413
    /\ Len(ScrapedEntries) = 1
    /\ ScrapedEntries[1].date_start = Date20200413
    /\ ScrapedEntries[1].date_end = <<>>

\* the label, trimmed, ends with a parenthesised group of some contents
HasTrailingGroup(label) ==
    LET text == Strip(label)
    IN /\ text # <<>>
       /\ text[Len(text)] = ")"
       /\ \E j \in 1..(Len(text) - 2) : text[j] = "("

\* where the trailing group of the trimmed label opens: its last "("
TrailingGroupOpen(label) ==
    LET text == Strip(label)
    IN CHOOSE j \in 1..(Len(text) - 2) :
          text[j] = "(" /\ \A k \in (j + 1)..(Len(text) - 2) : text[k] # "("

\* the contents of the trailing group, trimmed and case-folded
TrailingContents(label) ==
    LET text == Strip(label)
    IN Lower(Strip(SubSeq(text, TrailingGroupOpen(label) + 1, Len(text) - 1)))

\* the label without its trailing group, trimmed
TeamAsStated(label) ==
    IF HasTrailingGroup(label)
    THEN Strip(SubSeq(Strip(label), 1, TrailingGroupOpen(label) - 1))
    ELSE Strip(label)

\* the status read from the trailing group
StatusAsStated(label) ==
    IF ~HasTrailingGroup(label) THEN Active
    ELSE LET contents == TrailingContents(label)
         IN IF Contains(contents, InactiveLower) THEN Inactive
            ELSE IF Contains(contents, LoanLower) THEN Loan
            ELSE IF Contains(contents, StandInLower) \/ Contains(contents, StandinLower)
                 THEN StandIn
            ELSE IF Contains(contents, TrialLower) THEN Trial
            ELSE Title(contents)

\* C20: for every team label and each of the three scrapers, the stored team is
\* the label without its single trailing parenthesised group, trimmed, and
\* the stored status is read from the contents of that trailing group:
\* Inactive, Loan, Stand-in or Trial by the first word found, else the
\* contents title-cased, and Active for a label without trailing group.
C20_TeamAndStatusFromTrailingGroup ==
    \A i \in 1..Len(ScrapedEntries) :
        /\ ScrapedEntries[i].team = TeamAsStated(call.team_text)
        /\ ScrapedEntries[i].status = StatusAsStated(call.team_text)

----------------------------------------------------------------------------
(* The years of a stint *)

\* the integer of the first run of four digits in the text, NoYear for a text
\* without such a run
YearAsStated(text) ==
    LET runs == { i \in 1..(Len(text) - 3) : \A k \in 0..3 : IsDigit(text[i + k]) }
    IN IF runs = {} THEN NoYear
       ELSE LET first == CHOOSE i \in runs : \A j \in runs : i <= j
            IN IntOf(SubSeq(text, first, first + 3))

\* C21: every stint has as year_start the integer of the first run of four
\* digits in date_start and as year_end that of date_end, no year where the
\* text is empty or has no such run; only for the date_end "Present" year_end
\* is the current year.
C21_YearsFromFirstDigitRun ==
    pc = "built" =>
        \A i \in 1..Len(career_stints_df) :
            /\ career_stints_df[i].year_start = YearAsStated(career_stints_df[i].date_start)
            /\ career_stints_df[i].year_end =
                 IF career_stints_df[i].date_end = Present THEN now[1]
                 ELSE YearAsStated(career_stints_df[i].date_end)

----------------------------------------------------------------------------
(* A history table of several rows, scraped and built *)

\* how many rows a history table has
MaxRows == 2

Advanced == "AdvancedLiquipediaScraper"

\* the rows of the history table: <<date text, team text>>
HistoryRows ==
    { << Date20200413 \o RangeSep \o Date20200702, TeamX >>,
      << TBD, <<"H", "i", "s", "t", "o", "r", "y">> >>,
      << Date20210110 \o RangeSep \o Present, Sentinels >>,
      << <<"2", "0", "2", "0">>, Fnatic \o <<" ", "(", "L", "o", "a", "n", ")">> >> }

\* AdvancedLiquipediaScraper._get_career_history stores {'date', 'team'} for
\* every row; the builder reads date_start and date_end as '' and the status
\* as 'Active'
AdvancedEntry(row) == Entry(row[2], <<>>, <<>>, Active)

RECURSIVE ParseHistoryTable(_, _)
\* the career a scraper returns for the rows of a history table
ParseHistoryTable(scraper, rows) ==
    IF rows = <<>> THEN <<>>
    ELSE (IF scraper = Advanced THEN << AdvancedEntry(Head(rows)) >>
          ELSE ParseHistoryRow(scraper, Head(rows)[1], Head(rows)[2]))
         \o ParseHistoryTable(scraper, Tail(rows))

HistoryInit ==
    /\ pc = "extract_career_history"
    /\ call \in { [scraper |-> s, rows |-> r] :
                    s \in Scrapers \cup {Advanced}, r \in StringsUpTo(HistoryRows, MaxRows) }
    /\ ret = Idle
    /\ main_df = Idle /\ supp_df = Idle /\ combined_df = Idle
    /\ now \in Nows
    /\ players_df = Idle
    /\ career_stints_df = Idle
    /\ team_transitions_df = Idle
    /\ player_stats_df = Idle
    /\ derive_runs = 0
    /\ stints_clean = Idle /\ transitions_clean = Idle /\ stats_clean = Idle

\* get_player_details for a page with a history table
scrape_history_table ==
    /\ pc = "extract_career_history"
    /\ LET career == ParseHistoryTable(call.scraper, call.rows)
       IN players_df' = << FirstPlayer(IF career # <<>> THEN JsonList(career)
                                       ELSE NoneCell) >>
    /\ pc' = "build_career_stints_table"
    /\ UNCHANGED <<now, career_stints_df, team_transitions_df, player_stats_df,
                   derive_runs, cleanVars, mergeVars, callVars>>

\* build_career_stints_table on the scraped players file
build_history_stints ==
    /\ pc = "build_career_stints_table"
    /\ career_stints_df' = CareerStints(players_df, now)
    /\ pc' = "built"
    /\ UNCHANGED <<now, players_df, team_transitions_df, player_stats_df,
                   derive_runs, cleanVars, mergeVars, callVars>>

HistoryNext ==
    \/ scrape_history_table
    \/ build_history_stints

HistorySpec == HistoryInit /\ [][HistoryNext]_vars

\* the rows of the table whose date text holds a run of four digits
RowsWithYear(rows) ==
    SelectSeq(rows, LAMBDA row : \E i \in 1..(Len(row[1]) - 3) :
                                    \A k \in 0..3 : IsDigit(row[1][i + k]))

\* C22: a row whose date text holds no run of four digits becomes no stint
\* and takes no stint_number: the stints are the rows with a year, in table
\* order, numbered 1..n.
C22_RowsWithoutYearDropped ==
    pc = "built" =>
        LET dated == RowsWithYear(call.rows)
        IN /\ Len(career_stints_df) = Len(dated)
           /\ \A i \in 1..Len(career_stints_df) :
                 /\ career_stints_df[i].stint_number = i
                 /\ career_stints_df[i].team \in { dated[i][2], _clean_team_name(dated[i][2]) }

----------------------------------------------------------------------------
(* The denylist of the classifier *)

\* the entries of the denylist, case-folded
DenylistLower == { Lower(entry) : entry \in fake_teams_exact }

\* C23: every letter-case variant of an entry of the exact denylist, with or
\* without whitespace around it, is classified as noise.
C23_DenylistInAnyCase ==
    (pc = "returned" /\ call # NaN /\ Lower(Strip(call)) \in DenylistLower)
        => ret = TRUE

----------------------------------------------------------------------------
(* build_team_transitions_table on a stint collection of any kind *)

RECURSIVE Reversed(_)
Reversed(table) ==
    IF table = <<>> THEN <<>> ELSE Append(Reversed(Tail(table)), Head(table))

\* the table without its row at the position, the table itself if it has no
\* such row
WithoutRow(table, k) ==
    IF k \in 1..Len(table)
    THEN SubSeq(table, 1, k - 1) \o SubSeq(table, k + 1, Len(table))
    ELSE table

\* the stint collections: the built tables, the tables left when a row is
\* taken out of them, and the same with the rows in reverse order
StintCollections ==
    LET built == { CareerStints(players, today) : players \in PlayerTables, today \in Nows }
        thinned == { WithoutRow(table, k) :
                       table \in built, k \in 0..(MaxCareer + MaxOtherCareer) }
    IN thinned \cup { Reversed(table) : table \in thinned }

TransitionInit ==
    /\ pc = "build_team_transitions_table"
    /\ now \in Nows
    /\ players_df = Idle
    /\ career_stints_df \in StintCollections
    /\ team_transitions_df = NoTable
    /\ player_stats_df = NoTable
    /\ derive_runs = 0
    /\ stints_clean = NoTable
    /\ transitions_clean = NoTable
    /\ stats_clean = NoTable
    /\ main_df = Idle /\ supp_df = Idle /\ combined_df = Idle
    /\ call = Idle /\ ret = Idle

TransitionNext == build_team_transitions_table

TransitionSpec == TransitionInit /\ [][TransitionNext]_vars

\* the rows of the player put in stint_number order by rank: a row stands
\* behind the rows of smaller stint_number and behind the earlier rows of the
\* same stint_number
RankedStints(df, player_id) ==
    LET rows == RowsOf(df, player_id)
        Rank(i) == Cardinality({ j \in 1..Len(rows) :
                                   \/ rows[j].stint_number < rows[i].stint_number
                                   \/ /\ rows[j].stint_number = rows[i].stint_number
                                      /\ j <= i })
    IN [ n \in 1..Len(rows) |-> rows[CHOOSE i \in 1..Len(rows) : Rank(i) = n] ]

\* the transition joins the earlier stint to the later one
Joins(transition, earlier, later) ==
    /\ transition.player_id = earlier.player_id
    /\ transition.player_id = later.player_id
    /\ transition.from_team = earlier.team
    /\ transition.from_stint_status = earlier.stint_status
    /\ transition.to_team = later.team
    /\ transition.to_stint_status = later.stint_status
    /\ transition.transition_date = later.date_start
    /\ transition.transition_year = later.year_start

\* C24: run on any stint collection, also one with gaps in stint_number or
\* with its rows out of order, build_team_transitions_table emits for each
\* player exactly one Transition per pair of stints adjacent in the player's
\* stint_number-sorted sequence, in that order, from_team and
\* from_stint_status from the earlier stint and to_team, to_stint_status,
\* transition_date and transition_year from the later one, and no Transition
\* joins stints of two players
C24_TransitionsJoinAdjacentStints ==
    pc = "build_player_stats_table" =>
        /\ \A t \in 1..Len(team_transitions_df) :
             \E s \in 1..Len(career_stints_df) :
                 career_stints_df[s].player_id = team_transitions_df[t].player_id
        /\ \A s \in 1..Len(career_stints_df) :
             LET player_id == career_stints_df[s].player_id
                 sorted == RankedStints(career_stints_df, player_id)
                 emitted == SelectSeq(team_transitions_df,
                                      LAMBDA row : row.player_id = player_id)
             IN /\ Len(emitted) = Len(sorted) - 1
                /\ \A i \in 1..Len(emitted) : Joins(emitted[i], sorted[i], sorted[i + 1])

\* a player's stints numbered 1 and 3 with no stint numbered 2 have been
\* joined by a Transition
C24_Witness ==
    /\ pc = "build_player_stats_table"
    /\ \E s \in 1..Len(career_stints_df) :
         LET player_id == career_stints_df[s].player_id
             rows == RowsOf(career_stints_df, player_id)
         IN /\ { rows[i].stint_number : i \in 1..Len(rows) } = {1, 3}
            /\ Len(rows) = 2
            /\ rows[1].team # rows[2].team
            /\ \E t \in 1..Len(team_transitions_df) :
                 /\ team_transitions_df[t].player_id = player_id
                 /\ team_transitions_df[t].stint_number = 1
                 /\ \E i \in 1..2 : /\ rows[i].stint_number = 3
                                    /\ team_transitions_df[t].to_team = rows[i].team

----------------------------------------------------------------------------
(* The cleaner's three steps *)

\* the positions of the rows whose team is not noise
RealTeamPositions(df) == { i \in 1..Len(df) : ~is_fake_team(df[i].team) }

\* the n-th smallest of a set of positions
NthPosition(positions, n) ==
    CHOOSE i \in positions : Cardinality({ j \in positions : j <= i }) = n

\* the stints table the cleaner loads at its position
LoadedStints ==
    IF pc = "built" THEN ReadStintsCsv(career_stints_df) ELSE ReadStintsCsv(stints_clean)

\* C25: whenever the cleaner completes, the stints clean_stints returned are
\* exactly the loaded stints whose team is_fake_team does not classify as
\* noise, in their original order and with every field unchanged; no row is
\* added, and the stints the builder stored are left as they were
C25_CleanStintsKeepsRealTeamRows ==
    [][ (pc' \in {"cleaned", "recleaned"} /\ pc' # pc) =>
          LET kept == RealTeamPositions(LoadedStints)
          IN /\ Len(stints_clean') = Cardinality(kept)
             /\ \A n \in 1..Len(stints_clean') :
                  stints_clean'[n] = LoadedStints[NthPosition(kept, n)]
             /\ career_stints_df' = career_stints_df ]_vars

\* a noise stint between two real ones has been dropped
C25_Witness ==
    /\ pc = "cleaned"
    /\ Len(career_stints_df) = 3
    /\ is_fake_team(career_stints_df[2].team)
    /\ Len(stints_clean) = 2
    /\ stints_clean[1].stint_id = career_stints_df[1].stint_id
    /\ stints_clean[2].stint_id = career_stints_df[3].stint_id

\* the transitions table the cleaner loads at its position
LoadedTransitions ==
    IF pc = "built" THEN ReadTransitionsCsv(team_transitions_df)
    ELSE ReadCleanTransitionsCsv(transitions_clean)

\* the positions of the transitions with a noise team at either end
NoiseEndPositions(df) ==
    { i \in 1..Len(df) : is_fake_team(df[i].from_team) \/ is_fake_team(df[i].to_team) }

\* C26: whenever the cleaner completes on a transitions table, a loaded
\* Transition is missing from the cleaned table if and only if its from_team
\* or its to_team is noise; the others are kept unchanged and in order, and no
\* Transition is emitted that was not loaded
C26_TransitionDroppedIffNoiseEnd ==
    [][ (pc' \in {"cleaned", "recleaned"} /\ pc' # pc /\ LoadedTransitions # NoTable) =>
          LET dropped == NoiseEndPositions(LoadedTransitions)
              kept == (1..Len(LoadedTransitions)) \ dropped
          IN /\ \A i \in 1..Len(LoadedTransitions) :
                  i \in dropped <=>
                      ~\E n \in 1..Len(transitions_clean') :
                          transitions_clean'[n] = LoadedTransitions[i]
             /\ Len(transitions_clean') = Cardinality(kept)
             /\ \A n \in 1..Len(transitions_clean') :
                  transitions_clean'[n] = LoadedTransitions[NthPosition(kept, n)] ]_vars

\* a Transition from a real team to a noise team has been dropped and another
\* Transition kept
C26_Witness ==
    /\ pc = "cleaned"
    /\ transitions_clean # NoTable
    /\ Len(transitions_clean) >= 1
    /\ \E i \in 1..Len(team_transitions_df) :
         /\ ~is_fake_team(CsvField(team_transitions_df[i].from_team))
         /\ is_fake_team(CsvField(team_transitions_df[i].to_team))
         /\ \A n \in 1..Len(transitions_clean) :
              transitions_clean[n].transition_id # team_transitions_df[i].transition_id

\* the columns that both build_player_stats_table and recalculate_player_stats
\* compute from a player's stints
AggregateColumns ==
    { "total_teams", "unique_teams", "teams_played_multiple_times",
      "career_start_date", "career_end_date", "career_start_year", "career_end_year",
      "career_span_years", "total_career_days",
      "inactive_stints", "loan_stints", "standin_stints" }

\* the columns recalculate_player_stats takes from the statistics it is given
IdentityColumns ==
    { "real_name", "country", "current_team", "player_status", "is_active",
      "has_current_team" }

----------------------------------------------------------------------------
(* The stint_id counter *)

\* C28: the stint_id values of the built stints table are 1..N in emission
\* order, unique across all players, also when the processing of a player
\* was cut short by an error: no id is skipped and none is used twice
C28_StintIdsConsecutive ==
    (pc # "build_career_stints_table" /\ career_stints_df # NoTable) =>
        /\ \A i \in 1..Len(career_stints_df) : career_stints_df[i].stint_id = i
        /\ \A i, j \in 1..Len(career_stints_df) :
             career_stints_df[i].stint_id = career_stints_df[j].stint_id => i = j

\* the first player's career was cut short after its first entry by an entry
\* that is no dict, and the second player's stint carries the next id
C28_Witness ==
    /\ pc = "build_team_transitions_table"
    /\ Len(players_df) = 2
    /\ players_df[1].career_history.cell = "list"
    /\ Len(players_df[1].career_history.entries) = 3
    /\ ~players_df[1].career_history.entries[2].is_dict
    /\ Len(career_stints_df) = 2
    /\ career_stints_df[1].real_name = players_df[1].real_name
    /\ career_stints_df[2].real_name = players_df[2].real_name
    /\ career_stints_df[2].stint_id = 2

----------------------------------------------------------------------------
(* The cleaner run on the files it wrote *)

\* C29: running the cleaner on its own output changes nothing: clean_stints,
\* clean_transitions and recalculate_player_stats return, and the stints,
\* transitions and statistics they return equal the cleaned ones they were
\* given
C29_CleanerIdempotent ==
    [][ (pc = "cleaned" /\ pc' # pc) =>
          /\ pc' = "recleaned"
          /\ stints_clean' = stints_clean
          /\ transitions_clean' = transitions_clean
          /\ stats_clean' = stats_clean ]_vars

----------------------------------------------------------------------------
(* AdvancedLiquipediaScraper.scrape_with_filters with get_details: the loop
   over the filtered players, its checkpoint file, and a run that is
   interrupted and started again on the same list *)

\* longest filtered player list of a run
MaxPlayers == 21
\* how often a run is interrupted
MaxInterrupts == 2
\* (i + 1) % 10 == 0: a checkpoint after every tenth player
CheckpointEvery == 10

\* a player as scrape_europe_portal returns it
PortalPlayer(k, has_url) == [ player_id |-> k, player_page_url |-> has_url, details |-> FALSE ]

\* player.update(details): the details are fetched for a player with a page
WithDetails(player) == [ player EXCEPT !.details = player.player_page_url ]

\* the filtered player lists: k players, those of the given ids without a page
PlayerLists ==
    { [ k \in 1..n |-> PortalPlayer(k, k \notin no_url) ] :
        n \in 0..MaxPlayers, no_url \in { {}, {2}, {CheckpointEvery, MaxPlayers} } }

\* the checkpoint file: missing, opened for writing and not yet written, or
\* holding the JSON of a checkpoint
NoFile == [ exists |-> FALSE ]
Truncated == [ exists |-> TRUE, json |-> FALSE ]
CheckpointJson(data) == [ exists |-> TRUE, json |-> TRUE, data |-> data ]

\* a run from its first statement: the locals of scrape_with_filters
NewRun(players, checkpoint_file, interruptions) ==
    [ players |-> players, processed_players |-> <<>>, i |-> 0,
      checkpoint_file |-> checkpoint_file, interruptions |-> interruptions ]

CheckpointInit ==
    /\ pc = "load_checkpoint"
    /\ call \in { NewRun(players, NoFile, 0) : players \in PlayerLists }
    /\ ret = Idle
    /\ main_df = Idle /\ supp_df = Idle /\ combined_df = Idle
    /\ PipelineIdle

\* checkpoint = self.load_checkpoint() and the choice of start_idx; json.load
\* raises on a file that holds no complete JSON text
load_checkpoint ==
    /\ pc = "load_checkpoint"
    /\ IF call.checkpoint_file = NoFile
       THEN /\ call' = [ call EXCEPT !.processed_players = <<>>, !.i = 0 ]
            /\ pc' = "loop"
       ELSE IF call.checkpoint_file = Truncated
       THEN /\ pc' = "JSONDecodeError"
            /\ UNCHANGED call
       ELSE LET checkpoint == call.checkpoint_file.data
            IN /\ call' = IF checkpoint.players # <<>>
                          THEN [ call EXCEPT !.processed_players = checkpoint.players,
                                             !.i = Len(checkpoint.players) ]
                          ELSE [ call EXCEPT !.processed_players = <<>>, !.i = 0 ]
               /\ pc' = "loop"
    /\ UNCHANGED <<ret, mergeVars, pipelineVars>>

\* one pass of the loop body up to the append
process_player ==
    /\ pc = "loop"
    /\ call.i < Len(call.players)
    /\ LET player == call.players[call.i + 1]
       IN call' = [ call EXCEPT !.processed_players = Append(@, WithDetails(player)) ]
    /\ pc' = IF (call.i + 1) % CheckpointEvery = 0 THEN "save_checkpoint" ELSE "sleep"
    /\ UNCHANGED <<ret, mergeVars, pipelineVars>>

\* save_checkpoint: open(self.checkpoint_file, 'w') empties the file
open_checkpoint ==
    /\ pc = "save_checkpoint"
    /\ call' = [ call EXCEPT !.checkpoint_file = Truncated ]
    /\ pc' = "json.dump"
    /\ UNCHANGED <<ret, mergeVars, pipelineVars>>

\* save_checkpoint: json.dump(data, f) and the close of the file
dump_checkpoint ==
    /\ pc = "json.dump"
    /\ call' = [ call EXCEPT !.checkpoint_file =
                    CheckpointJson([ players |-> call.processed_players,
                                     last_index |-> call.i ]) ]
    /\ pc' = "sleep"
    /\ UNCHANGED <<ret, mergeVars, pipelineVars>>

\* time.sleep(2) and the step of the loop
sleep ==
    /\ pc = "sleep"
    /\ call' = [ call EXCEPT !.i = @ + 1 ]
    /\ pc' = "loop"
    /\ UNCHANGED <<ret, mergeVars, pipelineVars>>

\* the end of the loop: the checkpoint file is removed and the table returned
finish_scrape ==
    /\ pc = "loop"
    /\ call.i >= Len(call.players)
    /\ call' = [ call EXCEPT !.players = call.processed_players,
                             !.checkpoint_file = NoFile ]
    /\ ret' = call.processed_players
    /\ pc' = "done"
    /\ UNCHANGED <<mergeVars, pipelineVars>>

\* the run is interrupted between two of its steps and started again on the
\* same filtered list; only the checkpoint file outlives the run
interrupt_and_restart ==
    /\ pc \in {"loop", "save_checkpoint", "json.dump", "sleep"}
    /\ call.interruptions < MaxInterrupts
    /\ call' = NewRun([ k \in 1..Len(call.players) |->
                          PortalPlayer(k, call.players[k].player_page_url) ],
                      call.checkpoint_file, call.interruptions + 1)
    /\ pc' = "load_checkpoint"
    /\ UNCHANGED <<ret, mergeVars, pipelineVars>>

CheckpointNext ==
    \/ load_checkpoint
    \/ process_player
    \/ open_checkpoint
    \/ dump_checkpoint
    \/ sleep
    \/ finish_scrape
    \/ interrupt_and_restart

CheckpointSpec == CheckpointInit /\ [][CheckpointNext]_vars

\* the checkpoint holds the players processed so far, up to the one just done
CheckpointWritten ==
    (pc = "sleep" /\ (call.i + 1) % CheckpointEvery = 0) =>
        call.checkpoint_file =
            CheckpointJson([ players |-> call.processed_players, last_index |-> call.i ])

\* a run that starts beside a checkpoint file continues behind the players
\* the file holds
ResumesAtCheckpoint ==
    (pc = "load_checkpoint" /\ pc' # pc) =>
        /\ pc' = "loop"
        /\ call.checkpoint_file # Truncated
        /\ call'.i = IF call.checkpoint_file = NoFile THEN 0
                     ELSE Len(call.checkpoint_file.data.players)
        /\ call'.processed_players =
               [ k \in 1..call'.i |-> WithDetails(call.players[k]) ]

\* the returned table holds every player of the list once, in list order
ResultComplete ==
    pc = "done" =>
        /\ Len(ret) = Len(call.players)
        /\ \A k \in 1..Len(ret) : ret[k].player_id = k

\* no checkpoint file is left behind by a run that completed
CheckpointRemoved == pc = "done" => call.checkpoint_file = NoFile

\* C30: with get_details, for a run interrupted after any number of players
\* and started again on the same filtered list, a checkpoint is written
\* after every tenth player, the restarted run resumes at the index equal to
\* the number of checkpointed players, the result holds every player of the
\* list exactly once in list order, and the checkpoint file is gone once a
\* run has completed
C30_CheckpointAndResume ==
    /\ [](CheckpointWritten /\ ResultComplete /\ CheckpointRemoved)
    /\ [][ResumesAtCheckpoint]_vars

====
